---- MODULE Spec2Model ----
(***************************************************************************)
(* Voice channel (useSpeech) and turn orchestration (App.handleUserInput)  *)
(* of the Jarvis assistant, as one state machine.                          *)
(*                                                                         *)
(* Texts are sequences of strings.  Text that comes from the user or the   *)
(* recognizer is a sequence of one-character strings, so that trim,        *)
(* toLowerCase, includes and the command patterns are computed character   *)
(* by character.  Text literals of the program are single elements.        *)
(***************************************************************************)
EXTENDS Integers, Sequences, FiniteSets, TLC

\* ------------------------------------------------------------------------
\* Text primitives (JavaScript String methods used by the program)
\* ------------------------------------------------------------------------

UpperChars ==
    <<"A", "B", "C", "D", "E", "F", "G", "H", "I", "J", "K", "L", "M",
      "N", "O", "P", "Q", "R", "S", "T", "U", "V", "W", "X", "Y", "Z">>

LowerChars ==
    <<"a", "b", "c", "d", "e", "f", "g", "h", "i", "j", "k", "l", "m",
      "n", "o", "p", "q", "r", "s", "t", "u", "v", "w", "x", "y", "z">>

DigitChars ==
    {"0", "1", "2", "3", "4", "5", "6", "7", "8", "9"}

SetMin(S) ==
    CHOOSE x \in S : \A y \in S : x <= y

SetMax(S) ==
    CHOOSE x \in S : \A y \in S : x >= y

toLowerChar(c) ==
    IF \E i \in DOMAIN UpperChars : UpperChars[i] = c
    THEN LowerChars[CHOOSE i \in DOMAIN UpperChars : UpperChars[i] = c]
    ELSE c

toLowerCase(s) ==
    [i \in 1..Len(s) |-> toLowerChar(s[i])]

\* \s of a regular expression, and the white space String.trim removes
IsSpace(c) ==
    c \in {" ", "\t", "\n", "\r"}

\* what "." of a regular expression does not match
IsLineTerminator(c) ==
    c \in {"\n", "\r"}

\* \w of a regular expression
IsWordChar(c) ==
    \/ \E i \in DOMAIN UpperChars : UpperChars[i] = c \/ LowerChars[i] = c
    \/ c \in DigitChars
    \/ c = "_"

trim(s) ==
    LET keep == {i \in 1..Len(s) : ~IsSpace(s[i])}
    IN  IF keep = {} THEN <<>> ELSE SubSeq(s, SetMin(keep), SetMax(keep))

\* s has lit at index i (1-based)
HasAt(s, lit, i) ==
    /\ i >= 1
    /\ i + Len(lit) - 1 <= Len(s)
    /\ SubSeq(s, i, i + Len(lit) - 1) = lit

includes(s, lit) ==
    \E i \in 1..Len(s) : HasAt(s, lit, i)

startsWith(s, lit) ==
    HasAt(s, lit, 1)

\* s.replace(/\s+/g, '')
removeSpaces(s) ==
    SelectSeq(s, LAMBDA c : ~IsSpace(c))

\* \b between s[i] and s[i+1] (i = 0: before the text, i = Len(s): after it)
WordBoundary(s, i) ==
    LET before == i >= 1 /\ IsWordChar(s[i])
        after  == i + 1 <= Len(s) /\ IsWordChar(s[i + 1])
    IN  before # after

\* the longest run of white space of s that starts at index i (0 when none)
SpaceRun(s, i) ==
    LET ends == {j \in i..Len(s) : \A k \in i..j : IsSpace(s[k])}
    IN  IF ends = {} THEN 0 ELSE SetMax(ends) - i + 1

\* the end of the longest run of characters "." matches that starts at i
\* (i - 1 when there is none)
DotRunEnd(s, i) ==
    LET ends == {j \in i..Len(s) : \A k \in i..j : ~IsLineTerminator(s[k])}
    IN  IF ends = {} THEN i - 1 ELSE SetMax(ends)

NoMatch ==
    [matched |-> FALSE, group |-> <<>>]

\* ------------------------------------------------------------------------
\* Program constants
\* ------------------------------------------------------------------------

WAKE_WORD ==
    <<"h", "e", "y", " ", "j", "a", "r", "v", "i", "s">>

WakeAckText ==
    <<"Yes?">>

WakeAckId ==
    "jarvis-wake-ack"

InitId ==
    "init"

FileUploadSystemId ==
    "file-upload-system-message"

\* speakingMessageId = null, activeChatId = null
Null ==
    "null"

\* ------------------------------------------------------------------------
\* Local command patterns of handleUserInput
\* ------------------------------------------------------------------------

LitEmail ==
    <<"e", "m", "a", "i", "l">>

LitSendAnEmailTo ==
    <<"s", "e", "n", "d", " ", "a", "n", " ", "e", "m", "a", "i", "l", " ", "t", "o">>

LitOnYoutube ==
    <<"o", "n", " ", "y", "o", "u", "t", "u", "b", "e">>

LitNote ==
    <<"n", "o", "t", "e">>

LitLocalhost ==
    <<"l", "o", "c", "a", "l", "h", "o", "s", "t">>

LitHttp ==
    <<"h", "t", "t", "p">>

YoutubeVerbs ==
    { <<"s", "e", "a", "r", "c", "h", " ", "f", "o", "r">>,
      <<"f", "i", "n", "d">>,
      <<"p", "l", "a", "y">> }

OpenVerbs ==
    { <<"o", "p", "e", "n">>,
      <<"g", "o", " ", "t", "o">>,
      <<"l", "a", "u", "n", "c", "h">> }

NoteVerbs ==
    { <<"c", "r", "e", "a", "t", "e">>,
      <<"m", "a", "k", "e">>,
      <<"t", "a", "k", "e">>,
      <<"w", "r", "i", "t", "e">> }

NoteLinkWords ==
    { <<"a", "b", "o", "u", "t">>,
      <<"t", "h", "a", "t">>,
      <<"s", "a", "y", "i", "n", "g">> }

\* /\b(email|send an email to)\b/i .test(text)
emailIntentRegex(text) ==
    LET l == toLowerCase(text)
    IN  \E lit \in {LitEmail, LitSendAnEmailTo} : \E i \in 1..Len(l) :
            /\ HasAt(l, lit, i)
            /\ WordBoundary(l, i - 1)
            /\ WordBoundary(l, i + Len(lit) - 1)

\* text.match(/^(?:search for|find|play)\s+(.+)\s+on youtube/i): group 1.
\* \s+ and (.+) are greedy: the longest white space after the verb for which
\* the rest matches, then the longest group.
youtubeSearchRegex(text) ==
    LET l     == toLowerCase(text)
        verbs == {v \in YoutubeVerbs : startsWith(l, v)}
    IN  IF verbs = {} THEN NoMatch
        ELSE
        LET n     == Len(CHOOSE v \in verbs : TRUE)
            pairs == {p \in (1..Len(l)) \X (1..Len(l)) :
                        /\ p[1] <= SpaceRun(l, n + 1)
                        /\ n + p[1] + 1 <= p[2]
                        /\ p[2] <= DotRunEnd(l, n + p[1] + 1)
                        /\ \E m \in 1..SpaceRun(l, p[2] + 1) :
                               HasAt(l, LitOnYoutube, p[2] + m + 1)}
        IN  IF pairs = {} THEN NoMatch
            ELSE
            LET best == CHOOSE p \in pairs : \A q \in pairs :
                            \/ p[1] > q[1]
                            \/ (p[1] = q[1] /\ p[2] >= q[2])
            IN  [matched |-> TRUE, group |-> SubSeq(text, n + best[1] + 1, best[2])]

\* text.match(/^(?:open|go to|launch)\s+(.+)/i): group 1
openWebsiteRegex(text) ==
    LET l     == toLowerCase(text)
        verbs == {v \in OpenVerbs : startsWith(l, v)}
    IN  IF verbs = {} THEN NoMatch
        ELSE
        LET n  == Len(CHOOSE v \in verbs : TRUE)
            ks == {k \in 1..SpaceRun(l, n + 1) :
                      n + k + 1 <= Len(l) /\ ~IsLineTerminator(l[n + k + 1])}
        IN  IF ks = {} THEN NoMatch
            ELSE
            LET a == n + SetMax(ks) + 1
            IN  [matched |-> TRUE, group |-> SubSeq(text, a, DotRunEnd(l, a))]

\* where "note" starts when (create|make|take|write)\s+(a\s+)?note matches
\* at index i of the lower-cased text, 0 when it does not
NoteHeadAt(l, i) ==
    LET verbs == {v \in NoteVerbs : HasAt(l, v, i)}
    IN  IF verbs = {} THEN 0
        ELSE
        LET j  == i + Len(CHOOSE v \in verbs : TRUE)
            k  == SpaceRun(l, j)
            a  == j + k
            ka == SpaceRun(l, a + 1)
        IN  IF k = 0 THEN 0
            ELSE IF HasAt(l, <<"a">>, a) /\ ka > 0 /\ HasAt(l, LitNote, a + 1 + ka)
            THEN a + 1 + ka
            ELSE IF HasAt(l, LitNote, a) THEN a
            ELSE 0

\* (.*) of noteRegex, from index p of the text
NoteGroupFrom(text, l, p) ==
    [matched |-> TRUE, group |-> SubSeq(text, p, DotRunEnd(l, p))]

\* :?\s*(.*) of noteRegex, from index p
NoteAfterLink(text, l, p) ==
    LET q == IF HasAt(l, <<":">>, p) THEN p + 1 ELSE p
    IN  NoteGroupFrom(text, l, q + SpaceRun(l, q))

\* (?:about|that|saying)?:?\s*(.*) of noteRegex, from index p
NoteAfterSpace(text, l, p) ==
    LET links == {w \in NoteLinkWords : HasAt(l, w, p)}
    IN  NoteAfterLink(text, l,
            IF links = {} THEN p ELSE p + Len(CHOOSE w \in links : TRUE))

\* text.match(/(create|make|take|write)\s+(a\s+)?note\s*(?:about|that|saying)?:?\s*(.*)/i):
\* group 3, of the leftmost match
noteRegex(text) ==
    LET l      == toLowerCase(text)
        starts == {i \in 1..Len(l) : NoteHeadAt(l, i) > 0}
    IN  IF starts = {} THEN NoMatch
        ELSE
        LET p1 == NoteHeadAt(l, SetMin(starts)) + Len(LitNote)
        IN  NoteAfterSpace(text, l, p1 + SpaceRun(l, p1))

\* the URL the open-site command opens for the captured site name
siteUrl(group) ==
    LET siteName == trim(group)
    IN  IF ~includes(siteName, <<".">>) /\ ~includes(toLowerCase(siteName), LitLocalhost)
        THEN <<"https://">> \o removeSpaces(siteName) \o <<".com">>
        ELSE IF startsWith(siteName, LitHttp) THEN siteName
        ELSE <<"https://">> \o siteName

\* encodeURIComponent, character by character (the reserved characters the
\* bounded inputs can hold)
encodeURIChar(c) ==
    CASE c = " "  -> "%20"
      [] c = ":"  -> "%3A"
      [] c = "/"  -> "%2F"
      [] c = "?"  -> "%3F"
      [] c = "&"  -> "%26"
      [] c = "="  -> "%3D"
      [] c = "\n" -> "%0A"
      [] OTHER    -> c

encodeURIComponent(s) ==
    [i \in 1..Len(s) |-> encodeURIChar(s[i])]

\* ------------------------------------------------------------------------
\* Bounds of the model and its inputs
\* ------------------------------------------------------------------------

\* Date.now() never exceeds this value
MaxClock == 3

\* the value it never exceeds in the specifications that follow two events
ShortClock == 2

\* messages a session holds when a further turn is still accepted
MaxMessages == 4

\* provider requests in flight at one time
MaxInFlight == 2

\* restart timers of recognition.onend pending at one time
MaxRestartTimers == 1

\* cancelled utterances whose last event is still to be delivered
MaxCancelled == 1

\* characters one streamed completion delivers
MaxStreamed == 2

\* files attached to the input bar at one time
MaxFiles == 1

\* timers of handleEditMessage pending at one time
MaxResubmits == 1

\* sessions the history holds when a further one is still created
MaxChats == 3

\* images one message collects
MaxImages == 2

TxtBlank ==
    <<" ">>

TxtHi ==
    <<"H", "i">>

TxtWake ==
    <<"H", "e", "y", " ", "J", "a", "r", "v", "i", "s">>

TxtOpen ==
    <<"o", "p", "e", "n", " ", "y", "o", "u", "t", "u", "b", "e">>

TxtEmail ==
    <<"e", "m", "a", "i", "l", " ", "b", "o", "b">>

TxtPlay ==
    <<"p", "l", "a", "y", " ", "x", " ", "o", "n", " ", "y", "o", "u", "t", "u", "b", "e">>

TxtNote ==
    <<"m", "a", "k", "e", " ", "a", " ", "n", "o", "t", "e", ":", " ", "x">>

TxtNoteEmpty ==
    <<"t", "a", "k", "e", " ", "n", "o", "t", "e">>

TxtOpenNote ==
    <<"o", "p", "e", "n", " ", "a", " ", "n", "o", "t", "e", " ", "a", "b", "o", "u", "t", " ", "x">>

TxtOpenMakeNote ==
    <<"o", "p", "e", "n", " ", "m", "a", "k", "e", " ", "a", " ", "n", "o", "t", "e", " ", "x">>

TxtPlayEmail ==
    <<"p", "l", "a", "y", " ", "e", "m", "a", "i", "l", " ", "o", "n", " ", "y", "o", "u", "t", "u", "b", "e">>

TxtOpenEmail ==
    <<"o", "p", "e", "n", " ", "e", "m", "a", "i", "l">>

TxtOpenDotted ==
    <<"o", "p", "e", "n", " ", "x", ".", "i", "o">>

TxtOpenHttp ==
    <<"o", "p", "e", "n", " ", "h", "t", "t", "p", ":", "/", "/", "x", ".", "i", "o">>

TxtOpenLocalhost ==
    <<"o", "p", "e", "n", " ", "l", "o", "c", "a", "l", "h", "o", "s", "t">>

TxtOpenSpaced ==
    <<"o", "p", "e", "n", " ", "m", "y", " ", "s", "i", "t", "e">>

TxtOpenHttpbin ==
    <<"o", "p", "e", "n", " ", "h", "t", "t", "p", "b", "i", "n", ".", "o", "r", "g">>

TxtOpenFtp ==
    <<"o", "p", "e", "n", " ", "f", "t", "p", ":", "/", "/", "x", ".", "i", "o">>

\* sentences that match more than one command pattern, and the sentence
\* 'open a note about x'
OverlapTexts ==
    {TxtOpenNote, TxtOpenMakeNote, TxtPlayEmail, TxtOpenEmail}

\* sentences of the open-site command: a bare name, a dotted name, a URL,
\* localhost, a name with a space, a dotted name that starts with "http",
\* and a URL of another scheme
SiteTexts ==
    {TxtOpen, TxtOpenDotted, TxtOpenHttp, TxtOpenLocalhost, TxtOpenSpaced,
     TxtOpenHttpbin, TxtOpenFtp}

\* the milliseconds Date.now() advances from the previous handler that read
\* it to the next one, and between two reads within one handler
BetweenEvents ==
    {1, 2}

WithinHandler ==
    {0, 1}

\* what the user types into the input bar
TypedTexts ==
    {TxtBlank, TxtHi, TxtEmail}

\* the sentences that match a local command
CommandTexts ==
    {TxtOpen, TxtEmail, TxtPlay, TxtNote, TxtNoteEmpty}

\* what the user saves as the new text of a message
EditedTexts ==
    {TxtHi}

\* the file the user attaches, as FileReader delivers it
UploadedFile ==
    [name |-> <<"f.txt">>, type |-> "text/plain", data |-> "Zg=="]

\* the attachments a caller passes to handleUserInput
Attachments ==
    { <<>>, <<UploadedFile>> }

\* SpeechRecognitionEvent.results from resultIndex on
RecognitionEvents ==
    { << [isFinal |-> TRUE,  transcript |-> TxtWake] >>,
      << [isFinal |-> TRUE,  transcript |-> TxtHi] >>,
      << [isFinal |-> FALSE, transcript |-> TxtHi] >>,
      << [isFinal |-> TRUE,  transcript |-> TxtBlank] >> }

RecognitionErrors ==
    {"no-speech", "not-allowed", "network"}

StreamChunks ==
    { <<"o", "k">> }

\* the same content, delivered whole or split
SplitChunks ==
    { <<"o">>, <<"k">>, <<"o", "k">> }

\* ------------------------------------------------------------------------
\* State
\* ------------------------------------------------------------------------

VARIABLES
    \* useSpeech: React state and the intent flag
    isListening, isSpeaking, isAwake, speakingMessageId, isIntended,
    \* the browser's recognizer and synthesizer
    recog, restartTimers, synth, cancelled,
    \* App: React state
    allChats, activeChatId, aiState, currentError, uploadedFiles,
    isMicEnabled, isImageMode, isDeepResearchMode,
    \* the state values the installed closures and effects were rendered with
    r,
    \* Date.now(), the provider requests in flight, the timers of
    \* handleEditMessage, and the calls to collaborators made by the latest step
    now, pending, resubmits, calls

speechVars == <<isListening, isSpeaking, isAwake, speakingMessageId>>
engineVars == <<recog, restartTimers, synth, cancelled>>
appVars    == <<allChats, activeChatId, aiState, currentError, uploadedFiles,
                isMicEnabled, isImageMode, isDeepResearchMode>>
vars       == <<speechVars, isIntended, engineVars, appVars, r, now, pending,
                resubmits, calls>>

\* imageGenData === undefined
NoImageGen ==
    [present |-> FALSE, status |-> "none", originalPrompt |-> <<>>, prompt |-> <<>>,
     images |-> <<>>, error |-> <<>>]

NewMessage(id, role, text) ==
    [id |-> id, role |-> role, text |-> text, isStreaming |-> FALSE,
     fileInfos |-> <<>>, groundingMetadata |-> <<>>,
     imageGenData |-> NoImageGen, mode |-> "none"]

InitMessage ==
    NewMessage(InitId, "assistant",
        <<"Hello, I am Jarvis. I'm ready to assist you. You can type a message or activate my voice commands by saying 'Hey Jarvis'.">>)

NewChatTitle ==
    <<"New Chat">>

NoProviderCall ==
    [fn |-> "none", prompt |-> <<>>, search |-> FALSE]

\* handleUserInput was not called
NoInput ==
    [called |-> FALSE, text |-> <<>>, files |-> <<>>]

\* what a step did to the collaborators: onListen and its transcript; the
\* arguments handleUserInput got; the provider request; the URL given to
\* window.open; the note given to downloadNote; the status given to
\* onStateChange, or the one recognition.onstart and recognition.onend held
\* back because the synthesizer was speaking; the error given to onError;
\* whether the chat branch of handleUserInput logged what it caught, and what
\* it caught
NoCalls ==
    [listened |-> FALSE, transcript |-> <<>>,
     input |-> NoInput, provider |-> NoProviderCall,
     opened |-> <<>>, note |-> <<>>, reported |-> "none", withheld |-> "none",
     error |-> "none", logged |-> FALSE, caught |-> [isError |-> FALSE, message |-> <<>>]]


SynthIdle ==
    [state |-> "idle", text |-> <<>>, id |-> Null]

\* the state values a render passes to the closures and effects it creates
Rendered ==
    [isAwake |-> isAwake, isListening |-> isListening, isSpeaking |-> isSpeaking,
     speakingMessageId |-> speakingMessageId,
     allChats |-> allChats, activeChatId |-> activeChatId, aiState |-> aiState,
     uploadedFiles |-> uploadedFiles, isMicEnabled |-> isMicEnabled,
     isImageMode |-> isImageMode, isDeepResearchMode |-> isDeepResearchMode]

\* After mount: the stored chats are empty, so one chat with the greeting is
\* created and made active; the mount effect and the listening-control
\* effect have both called startListening().
Init ==
    /\ isListening = FALSE
    /\ isSpeaking = FALSE
    /\ isAwake = FALSE
    /\ speakingMessageId = Null
    /\ isIntended = TRUE
    /\ recog = "starting"
    /\ restartTimers = 0
    /\ synth = SynthIdle
    /\ cancelled = 0
    /\ now = 0
    /\ allChats = << [id |-> ToString(0), title |-> NewChatTitle,
                      messages |-> <<InitMessage>>] >>
    /\ activeChatId = ToString(0)
    /\ aiState = "idle"
    /\ currentError = <<>>
    /\ uploadedFiles = <<>>
    /\ isMicEnabled = TRUE
    /\ isImageMode = FALSE
    /\ isDeepResearchMode = FALSE
    /\ r = [isAwake |-> FALSE, isListening |-> FALSE, isSpeaking |-> FALSE,
            speakingMessageId |-> Null,
            allChats |-> << [id |-> ToString(0), title |-> NewChatTitle,
                             messages |-> <<InitMessage>>] >>,
            activeChatId |-> ToString(0), aiState |-> "idle",
            uploadedFiles |-> <<>>, isMicEnabled |-> TRUE,
            isImageMode |-> FALSE, isDeepResearchMode |-> FALSE]
    /\ pending = <<>>
    /\ resubmits = <<>>
    /\ calls = NoCalls

\* ------------------------------------------------------------------------
\* Session store helpers
\* ------------------------------------------------------------------------

HasChat(chats, chatId) ==
    \E c \in DOMAIN chats : chats[c].id = chatId

\* allChats.find(chat => chat.id === chatId)
FindChat(chats, chatId) ==
    chats[SetMin({c \in DOMAIN chats : chats[c].id = chatId})]

ChatMessages(chats, chatId) ==
    IF HasChat(chats, chatId) THEN FindChat(chats, chatId).messages ELSE <<>>

\* updateActiveChatMessages(prev => [...prev, message]), of the closure whose
\* activeChatId is chatId
appendToChat(chats, chatId, message) ==
    [c \in DOMAIN chats |->
        IF chats[c].id = chatId
        THEN [chats[c] EXCEPT !.messages = Append(@, message)]
        ELSE chats[c]]

\* every message of every chat: what an updater of updateMessage may be given
AllMessages(chats) ==
    UNION { { chats[c].messages[i] : i \in DOMAIN chats[c].messages } : c \in DOMAIN chats }

\* updateMessage(messageId, updater): every message with that id, in every
\* chat; the updater is a function of the message
updateMessage(chats, messageId, updater) ==
    [c \in DOMAIN chats |->
        [chats[c] EXCEPT !.messages =
            [i \in DOMAIN chats[c].messages |->
                IF chats[c].messages[i].id = messageId
                THEN updater[chats[c].messages[i]]
                ELSE chats[c].messages[i]]]]

\* mainContent.substring(0, 40) + (mainContent.length > 40 ? '...' : '')
TitleLength == 40

titleOf(mainContent) ==
    IF Len(mainContent) > TitleLength
    THEN SubSeq(mainContent, 1, TitleLength) \o <<"...">>
    ELSE mainContent

\* activeChat?.title when there is no active chat
UndefinedTitle ==
    <<>>

fileInfosOf(filesData) ==
    [i \in DOMAIN filesData |-> [name |-> filesData[i].name, type |-> filesData[i].type]]

\* ------------------------------------------------------------------------
\* Speech channel: engines and callbacks
\* ------------------------------------------------------------------------

\* recognition.start(): throws unless the recognizer is stopped, and every
\* caller swallows the exception
recognitionStart(h) ==
    IF h = "stopped" THEN "starting" ELSE h

\* recognition.stop(): a running recognizer may still deliver the result of
\* the audio captured so far before it ends
recognitionStop(h) ==
    CASE h = "running"  -> "stopping"
      [] h = "starting" -> "ending"
      [] OTHER          -> h

\* recognition.onstart and recognition.onend without their test of
\* window.speechSynthesis.speaking
SynthNeverSpeaking ==
    {FALSE}

\* window.speechSynthesis.speaking as a handler may read it: true while an
\* utterance plays, false when none is queued, and either value while the
\* queued utterance has not begun
SynthSpeakingValues ==
    CASE synth.state = "playing" -> {TRUE}
      [] synth.state = "pending" -> {TRUE, FALSE}
      [] OTHER                   -> {FALSE}

\* onStateChange of App, as the closure installed by the last render runs it:
\* the value of aiState after the call, given its value cur before
onStateChange(cur, newState) ==
    IF newState \in {"listening", "speaking"} THEN newState
    ELSE IF newState = "idle" /\ r.aiState # "thinking" THEN "idle"
    ELSE cur

\* speak(text, messageId): cancel() then speak(utterance)
speakSynth(text, messageId) ==
    IF text = <<>> THEN synth
    ELSE [state |-> "pending", text |-> text, id |-> messageId]

speakCancelled(text) ==
    IF text = <<>> \/ synth.state = "idle" THEN cancelled ELSE cancelled + 1

\* the listening-control effect of App for a render with the values new, when
\* the previous render had the values old: "start", "stop" or "none"
listeningEffect(old, new) ==
    LET shouldBeListening ==
            new.isMicEnabled /\ new.aiState # "thinking" /\ ~new.isSpeaking
    IN  IF <<new.isMicEnabled, new.aiState, new.isSpeaking, new.isListening>>
             = <<old.isMicEnabled, old.aiState, old.isSpeaking, old.isListening>>
        THEN "none"
        ELSE IF shouldBeListening /\ ~new.isListening THEN "start"
        ELSE IF ~shouldBeListening /\ new.isListening THEN "stop"
        ELSE "none"

\* A render commits: the closures (processResult, onListen, onStateChange,
\* handleUserInput) are re-installed with the rendered values and the
\* listening-control effect runs startListening() or stopListening().
Commit(new) ==
    LET e == listeningEffect(r, new)
    IN  /\ r' = new
        /\ isIntended' = (IF e = "start" THEN TRUE
                          ELSE IF e = "stop" THEN FALSE ELSE isIntended)
        /\ recog' = (IF e = "start" THEN recognitionStart(recog)
                     ELSE IF e = "stop" THEN recognitionStop(recog) ELSE recog)

\* The render React schedules after state was set outside a discrete event
\* (recognizer and synthesizer events, timers, resolved promises).
Render ==
    /\ r # Rendered
    /\ Commit(Rendered)
    /\ calls' = NoCalls
    /\ UNCHANGED <<speechVars, restartTimers, synth, cancelled, appVars, now, pending, resubmits>>

\* The render React flushes at the end of a discrete event (a click, a key
\* press) whose handler set state.
SyncRender ==
    IF UNCHANGED <<speechVars, appVars>>
    THEN UNCHANGED <<r, isIntended, recog>>
    ELSE Commit(Rendered')

\* ------------------------------------------------------------------------
\* Turn orchestration: handleUserInput
\* ------------------------------------------------------------------------

EmailNoRecipientText ==
    <<"I couldn't determine a recipient. Please try again and include a full email address.">>

EmailFailedText ==
    <<"I had some trouble understanding the email details. Please try again.">>

NoteCreatedText ==
    <<"I've created a note with your content. It should be in your downloads.">>

NoteAskText ==
    <<"Of course. What should I write in the note?">>

EnhanceFailedText ==
    <<"I had some trouble brainstorming a detailed prompt. Please try again.">>

EnhancedText ==
    <<"Here is a suggested prompt. Shall I proceed?">>

PlaceholderText ==
    <<"...">>

ApiKeyMissingText ==
    <<"AI Service Error: The API Key is missing. Please add it to your Vercel Environment Variables (Name: API_KEY) and redeploy the project.">>

ApiKeyInvalidText ==
    <<"AI Service Error: The provided API Key is invalid. Please check the key in your Vercel Environment Variables.">>

CannotConnectText ==
    <<"My apologies, I am unable to connect to my core systems. Please try again later.">>

\* a provider request in flight, with what its continuation has captured
Task(kind, chatId, userId, msgId, mode) ==
    [kind |-> kind, chatId |-> chatId, userId |-> userId, msgId |-> msgId,
     mode |-> mode, fullText |-> <<>>, chunks |-> 0, received |-> <<>>,
     prompt |-> <<>>]

currentModeOf(rendered) ==
    IF rendered.isImageMode THEN "image_gen"
    ELSE IF rendered.isDeepResearchMode THEN "deep_research_gen"
    ELSE "none"

\* the command branch with the note pattern tried before the open-site one
commandBranchNoteFirst(text) ==
    IF emailIntentRegex(text) THEN "email"
    ELSE IF youtubeSearchRegex(text).matched THEN "youtube"
    ELSE IF noteRegex(text).matched THEN "note"
    ELSE IF openWebsiteRegex(text).matched THEN "open"
    ELSE "chat"

\* the command branch of an accepted turn
commandBranch(text) ==
    IF emailIntentRegex(text) THEN "email"
    ELSE IF youtubeSearchRegex(text).matched THEN "youtube"
    ELSE IF openWebsiteRegex(text).matched THEN "open"
    ELSE IF noteRegex(text).matched THEN "note"
    ELSE "chat"

\* generateResponseStream with the search tool in every request
searchAlwaysEnabled(options) ==
    TRUE

\* generateResponseStream: config.tools holds googleSearch
searchEnabled(options) ==
    options.deepResearch

\* handleUserInput without its test of isImageMode
turnBranchIgnoringImageMode(text, filesData) ==
    IF ~r.isDeepResearchMode /\ filesData = <<>> /\ trim(text) # <<>>
    THEN commandBranch(text)
    ELSE "chat"

\* handleUserInput without its test of isDeepResearchMode
turnBranchIgnoringDeepResearch(text, filesData) ==
    IF r.isImageMode
    THEN IF trim(text) # <<>> THEN "image" ELSE "image-empty"
    ELSE IF filesData = <<>> /\ trim(text) # <<>>
    THEN commandBranch(text)
    ELSE "chat"

\* which branch handleUserInput takes for an accepted turn
turnBranch(text, filesData) ==
    IF r.isImageMode
    THEN IF trim(text) # <<>> THEN "image" ELSE "image-empty"
    ELSE IF ~r.isDeepResearchMode /\ filesData = <<>> /\ trim(text) # <<>>
    THEN commandBranch(text)
    ELSE "chat"

\* handleUserInput with a guard that does not trim the text
rejectsInputUntrimmed(text, filesData) ==
    \/ (text = <<>> /\ filesData = <<>>)
    \/ r.activeChatId = Null

\* the guard of handleUserInput: the call returns at once
rejectsInput(text, filesData) ==
    \/ (trim(text) = <<>> /\ filesData = <<>>)
    \/ r.activeChatId = Null

InputOf(text, filesData) ==
    [called |-> TRUE, text |-> text, files |-> filesData]

\* handleUserInput(text, filesData), as the closure installed by the last
\* render runs it, up to its first await (to its end when it awaits nothing).
\* c0: the calls to collaborators the caller has made in the same step.
HandleUserInput(text, filesData, c0) ==
    IF rejectsInput(text, filesData)
    THEN /\ calls' = [c0 EXCEPT !.input = InputOf(text, filesData)]
         /\ UNCHANGED <<allChats, uploadedFiles, aiState, currentError,
                        isImageMode, isDeepResearchMode, pending, now>>
    ELSE \E branch \in {turnBranch(text, filesData)} : \E d1 \in BetweenEvents, d2 \in WithinHandler :
        LET t1          == now + d1
            t2          == t1 + d2
            chatId      == r.activeChatId
            currentMode == currentModeOf(r)
            userMessage == [NewMessage(ToString(t1), "user", text) EXCEPT
                               !.fileInfos = fileInfosOf(filesData),
                               !.mode = currentMode]
            hasActive   == HasChat(r.allChats, chatId)
            isNewChat   == /\ hasActive
                           /\ Len(FindChat(r.allChats, chatId).messages) = 1
                           /\ FindChat(r.allChats, chatId).messages[1].id = InitId
            mainContent == IF text # <<>> THEN text
                           ELSE IF filesData # <<>> THEN filesData[1].name
                           ELSE NewChatTitle
            newTitle    == IF isNewChat THEN titleOf(mainContent)
                           ELSE IF hasActive THEN FindChat(r.allChats, chatId).title
                           ELSE UndefinedTitle
            withUser    == [c \in DOMAIN allChats |->
                              IF allChats[c].id = chatId
                              THEN [allChats[c] EXCEPT
                                      !.title = newTitle,
                                      !.messages = Append(
                                          SelectSeq(@, LAMBDA m : m.id # FileUploadSystemId),
                                          userMessage)]
                              ELSE allChats[c]]
            prompt      == trim(text)
            yt          == youtubeSearchRegex(text).group
            siteName    == trim(openWebsiteRegex(text).group)
            noteContent == noteRegex(text).group
            reply(t)    == appendToChat(withUser, chatId,
                               NewMessage(ToString(t2), "assistant", t))
            assistantId == ToString(t2 + 1)
            imageMsg    == [NewMessage(assistantId, "assistant",
                               <<"Enhancing prompt for: \"">> \o prompt \o <<"\"...">>)
                            EXCEPT !.imageGenData =
                                       [present |-> TRUE, status |-> "confirming_prompt",
                                        originalPrompt |-> prompt, prompt |-> <<>>,
                                        images |-> <<>>, error |-> <<>>],
                                   !.mode = "image_gen"]
            streamMsg   == [NewMessage(assistantId, "assistant", PlaceholderText)
                            EXCEPT !.isStreaming = TRUE, !.mode = currentMode]
            awaits      == branch \in {"image", "email", "chat"}
        IN  /\ t2 <= MaxClock
            /\ Len(ChatMessages(allChats, chatId)) < MaxMessages
            /\ awaits => Len(pending) < MaxInFlight
            /\ now' = t2
            /\ uploadedFiles' = <<>>
            /\ allChats' =
                 CASE branch = "image"   -> appendToChat(withUser, chatId, imageMsg)
                   [] branch = "youtube" -> reply(<<"Searching for \"">> \o yt \o <<"\" on YouTube.">>)
                   [] branch = "open"    -> reply(<<"Opening ">> \o siteName \o <<" for you.">>)
                   [] branch = "note"    -> reply(IF noteContent # <<>> THEN NoteCreatedText
                                                  ELSE NoteAskText)
                   [] branch = "chat"    -> appendToChat(withUser, chatId, streamMsg)
                   [] OTHER              -> withUser
            /\ aiState' =
                 CASE branch \in {"image", "email", "chat"}   -> "thinking"
                   [] branch \in {"youtube", "open", "note"}  -> "idle"
                   [] OTHER                                   -> aiState
            /\ currentError' =
                 IF branch \in {"image", "image-empty"} THEN currentError ELSE <<>>
            /\ isImageMode' = (IF branch = "image-empty" THEN FALSE ELSE isImageMode)
            /\ UNCHANGED isDeepResearchMode
            /\ pending' =
                 CASE branch = "image" ->
                        Append(pending, Task("enhance", chatId, userMessage.id, assistantId, currentMode))
                   [] branch = "email" ->
                        Append(pending, Task("email", chatId, userMessage.id, Null, currentMode))
                   [] branch = "chat" ->
                        Append(pending, Task("chat", chatId, userMessage.id, assistantId, currentMode))
                   [] OTHER -> pending
            /\ calls' =
                 CASE branch = "image" ->
                        [c0 EXCEPT !.input = InputOf(text, filesData),
                                   !.provider = [fn |-> "generateDetailedImagePrompt",
                                                 prompt |-> prompt, search |-> FALSE]]
                   [] branch = "email" ->
                        [c0 EXCEPT !.input = InputOf(text, filesData),
                                   !.provider = [fn |-> "generateEmailDraft",
                                                 prompt |-> text, search |-> FALSE]]
                   [] branch = "chat" ->
                        [c0 EXCEPT !.input = InputOf(text, filesData),
                                   !.provider = [fn |-> "generateResponseStream",
                                                 prompt |-> text,
                                                 search |-> searchEnabled(
                                                     [deepResearch |-> r.isDeepResearchMode])]]
                   [] branch = "youtube" ->
                        [c0 EXCEPT !.input = InputOf(text, filesData),
                                   !.opened =
                            <<"https://www.youtube.com/results?search_query=">>
                                \o encodeURIComponent(yt)]
                   [] branch = "open" ->
                        [c0 EXCEPT !.input = InputOf(text, filesData),
                                   !.opened = siteUrl(openWebsiteRegex(text).group)]
                   [] branch = "note" ->
                        [c0 EXCEPT !.input = InputOf(text, filesData),
                                   !.note = noteContent]
                   [] OTHER -> [c0 EXCEPT !.input = InputOf(text, filesData)]

\* no call of handleUserInput in this step
AppUntouched ==
    UNCHANGED <<allChats, uploadedFiles, aiState, currentError,
                isImageMode, isDeepResearchMode, pending, now>>

\* ------------------------------------------------------------------------
\* Speech channel: events of the recognizer
\* ------------------------------------------------------------------------

RECURSIVE finalTranscriptOf(_)
\* the concatenation of the transcripts of the final results of the event
finalTranscriptOf(results) ==
    IF results = <<>> THEN <<>>
    ELSE (IF Head(results).isFinal THEN Head(results).transcript ELSE <<>>)
             \o finalTranscriptOf(Tail(results))

\* finalTranscript.toLowerCase().trim()
transcriptLowerOf(event) ==
    trim(toLowerCase(finalTranscriptOf(event)))

\* what processResultRef.current does with a result event:
\* "ignore", "wake" or "dispatch"
processResult(event) ==
    LET transcriptLower == transcriptLowerOf(event)
    IN  IF transcriptLower = <<>> THEN "ignore"
        ELSE IF ~r.isAwake /\ includes(transcriptLower, WAKE_WORD) THEN "wake"
        ELSE IF r.isAwake /\ transcriptLower # <<>> THEN "dispatch"
        ELSE "ignore"

\* recognition.onresult
RecogResult(event) ==
    /\ recog \in {"running", "stopping"}
    /\ LET finalTranscript == finalTranscriptOf(event)
           outcome         == processResult(event)
       IN  /\ isAwake' = (CASE outcome = "wake"     -> TRUE
                            [] outcome = "dispatch" -> FALSE
                            [] OTHER                -> isAwake)
           /\ IF outcome = "wake"
              THEN /\ speakCancelled(WakeAckText) <= MaxCancelled
                   /\ synth' = speakSynth(WakeAckText, WakeAckId)
                   /\ cancelled' = speakCancelled(WakeAckText)
              ELSE UNCHANGED <<synth, cancelled>>
           /\ IF outcome = "dispatch"
              THEN HandleUserInput(finalTranscript, r.uploadedFiles,
                       [NoCalls EXCEPT !.listened = TRUE, !.transcript = finalTranscript])
              ELSE calls' = NoCalls /\ AppUntouched
    /\ UNCHANGED <<isListening, isSpeaking, speakingMessageId, isIntended,
                   recog, restartTimers, activeChatId, isMicEnabled, r, resubmits>>

\* recognition.onstart
RecogStart ==
    /\ recog = "starting"
    /\ recog' = "running"
    /\ isListening' = TRUE
    /\ \E speaking \in SynthSpeakingValues :
          IF ~speaking
          THEN /\ aiState' = onStateChange(aiState, "listening")
               /\ calls' = [NoCalls EXCEPT !.reported = "listening"]
          ELSE /\ aiState' = aiState
               /\ calls' = [NoCalls EXCEPT !.withheld = "listening"]
    /\ UNCHANGED <<isSpeaking, isAwake, speakingMessageId, isIntended,
                   restartTimers, synth, cancelled, allChats, activeChatId,
                   currentError, uploadedFiles, isMicEnabled, isImageMode,
                   isDeepResearchMode, r, now, pending, resubmits>>

\* recognition.onend clearing isListening whatever the intent
RecogEndAlwaysClears ==
    /\ recog \in {"running", "stopping", "ending"}
    /\ isIntended => restartTimers < MaxRestartTimers
    /\ recog' = "stopped"
    /\ isListening' = FALSE
    /\ restartTimers' = (IF isIntended THEN restartTimers + 1 ELSE restartTimers)
    /\ \E speaking \in SynthSpeakingValues :
          IF ~speaking
          THEN /\ aiState' = onStateChange(aiState, "idle")
               /\ calls' = [NoCalls EXCEPT !.reported = "idle"]
          ELSE /\ aiState' = aiState
               /\ calls' = [NoCalls EXCEPT !.withheld = "idle"]
    /\ UNCHANGED <<isSpeaking, isAwake, speakingMessageId, isIntended,
                   synth, cancelled, allChats, activeChatId,
                   currentError, uploadedFiles, isMicEnabled, isImageMode,
                   isDeepResearchMode, r, now, pending, resubmits>>

\* recognition.onend
RecogEnd ==
    /\ recog \in {"running", "stopping", "ending"}
    /\ isIntended => restartTimers < MaxRestartTimers
    /\ recog' = "stopped"
    /\ \E speaking \in SynthSpeakingValues :
          IF ~isIntended
          THEN /\ isListening' = FALSE
               /\ restartTimers' = restartTimers
               /\ IF ~speaking
                  THEN /\ aiState' = onStateChange(aiState, "idle")
                       /\ calls' = [NoCalls EXCEPT !.reported = "idle"]
                  ELSE /\ aiState' = aiState
                       /\ calls' = [NoCalls EXCEPT !.withheld = "idle"]
          ELSE /\ restartTimers' = restartTimers + 1
               /\ calls' = NoCalls
               /\ UNCHANGED <<isListening, aiState>>
    /\ UNCHANGED <<isSpeaking, isAwake, speakingMessageId, isIntended,
                   synth, cancelled, allChats, activeChatId,
                   currentError, uploadedFiles, isMicEnabled, isImageMode,
                   isDeepResearchMode, r, now, pending, resubmits>>

\* the timer recognition.onend set: recognition.start()
RestartTimer ==
    /\ restartTimers > 0
    /\ restartTimers' = restartTimers - 1
    /\ recog' = recognitionStart(recog)
    /\ calls' = NoCalls
    /\ UNCHANGED <<speechVars, isIntended, synth, cancelled, appVars, r, now, pending, resubmits>>

MicDeniedText ==
    <<"Microphone access was denied. Please allow microphone access and turn the mic back on.">>

\* recognition.onerror without its test of the error kind
RecogErrorSurfacesNoSpeech(error) ==
    /\ recog \in {"starting", "running", "stopping"}
    /\ recog' = "ending"
    /\ isListening' = FALSE
    /\ aiState' = onStateChange(aiState, "idle")
    /\ calls' = [NoCalls EXCEPT !.reported = "idle", !.error = error]
    /\ IF error = "not-allowed"
       THEN isMicEnabled' = FALSE /\ currentError' = MicDeniedText
       ELSE UNCHANGED <<isMicEnabled, currentError>>
    /\ UNCHANGED <<isSpeaking, isAwake, speakingMessageId, isIntended,
                   restartTimers, synth, cancelled, allChats, activeChatId,
                   uploadedFiles, isImageMode, isDeepResearchMode, r, now, pending, resubmits>>

\* recognition.onerror, and handleSpeechError of App; the recognizer ends
\* after an error
RecogError(error) ==
    /\ recog \in {"starting", "running", "stopping"}
    /\ recog' = "ending"
    /\ IF error # "no-speech"
       THEN /\ isListening' = FALSE
            /\ aiState' = onStateChange(aiState, "idle")
            /\ calls' = [NoCalls EXCEPT !.reported = "idle", !.error = error]
            /\ IF error = "not-allowed"
               THEN isMicEnabled' = FALSE /\ currentError' = MicDeniedText
               ELSE UNCHANGED <<isMicEnabled, currentError>>
       ELSE /\ calls' = NoCalls
            /\ UNCHANGED <<isListening, aiState, isMicEnabled, currentError>>
    /\ UNCHANGED <<isSpeaking, isAwake, speakingMessageId, isIntended,
                   restartTimers, synth, cancelled, allChats, activeChatId,
                   uploadedFiles, isImageMode, isDeepResearchMode, r, now, pending, resubmits>>

\* ------------------------------------------------------------------------
\* Speech channel: events of the synthesizer
\* ------------------------------------------------------------------------

\* utterance.onstart
UtteranceStart ==
    /\ synth.state = "pending"
    /\ synth' = [synth EXCEPT !.state = "playing"]
    /\ isSpeaking' = TRUE
    /\ speakingMessageId' = synth.id
    /\ aiState' = onStateChange(aiState, "speaking")
    /\ calls' = [NoCalls EXCEPT !.reported = "speaking"]
    /\ UNCHANGED <<isListening, isAwake, isIntended, recog, restartTimers,
                   cancelled, allChats, activeChatId, currentError, uploadedFiles,
                   isMicEnabled, isImageMode, isDeepResearchMode, r, now, pending, resubmits>>

\* the cleanup utterance.onend does, and utterance.onerror for a true error
utteranceCleanup ==
    /\ isSpeaking' = FALSE
    /\ speakingMessageId' = Null
    /\ aiState' = onStateChange(aiState, "idle")
    /\ calls' = [NoCalls EXCEPT !.reported = "idle"]

\* utterance.onend of the utterance that was playing
UtteranceEnd ==
    /\ synth.state = "playing"
    /\ synth' = SynthIdle
    /\ utteranceCleanup
    /\ UNCHANGED <<isListening, isAwake, isIntended, recog, restartTimers,
                   cancelled, allChats, activeChatId, currentError, uploadedFiles,
                   isMicEnabled, isImageMode, isDeepResearchMode, r, now, pending, resubmits>>

\* utterance.onerror with an error other than 'interrupted' and 'canceled'
UtteranceError ==
    /\ synth.state \in {"pending", "playing"}
    /\ synth' = SynthIdle
    /\ utteranceCleanup
    /\ UNCHANGED <<isListening, isAwake, isIntended, recog, restartTimers,
                   cancelled, allChats, activeChatId, currentError, uploadedFiles,
                   isMicEnabled, isImageMode, isDeepResearchMode, r, now, pending, resubmits>>

\* The last event of an utterance that cancel() removed.  Browsers differ:
\* the utterance gets an error event ('interrupted' or 'canceled'), which
\* utterance.onerror ignores, or an end event, which runs utterance.onend.
CancelledUtteranceEvent(event) ==
    /\ cancelled > 0
    /\ cancelled' = cancelled - 1
    /\ IF event = "end"
       THEN utteranceCleanup
       ELSE calls' = NoCalls /\ UNCHANGED <<isSpeaking, speakingMessageId, aiState>>
    /\ UNCHANGED <<isListening, isAwake, isIntended, recog, restartTimers,
                   synth, allChats, activeChatId, currentError, uploadedFiles,
                   isMicEnabled, isImageMode, isDeepResearchMode, r, now, pending, resubmits>>

\* ------------------------------------------------------------------------
\* Turn orchestration: the provider answers
\* ------------------------------------------------------------------------

RemoveAt(seq, i) ==
    SubSeq(seq, 1, i - 1) \o SubSeq(seq, i + 1, Len(seq))

EmailDrafts ==
    { [recipient |-> <<>>, subject |-> <<"s">>, body |-> <<"b">>],
      [recipient |-> <<"bob@example.com">>, subject |-> <<"s">>, body |-> <<"b">>] }

DetailedPrompts ==
    { <<"a detailed prompt">> }

\* a thrown Error with its message, and a thrown value that is no Error
ErrorOf(message) ==
    [isError |-> TRUE, message |-> message]

NotAnError ==
    [isError |-> FALSE, message |-> <<>>]

\* the message of initError when the key is missing
ApiKeyMissingMessage ==
    <<"API_KEY is missing", ". Please configure it in your Vercel deployment settings.">>

\* the message of the provider's error for a key it rejects
ApiKeyInvalidMessage ==
    <<"A", "P", "I", " ", "k", "e", "y", " ", "n", "o", "t", " ", "v", "a", "l", "i", "d", ". Please pass a valid API key.">>

QuotaMessage ==
    <<"q", "u", "o", "t", "a">>

LitApiKeyIsMissing ==
    <<"API_KEY is missing">>

LitApiKeyNotValid ==
    <<"a", "p", "i", " ", "k", "e", "y", " ", "n", "o", "t", " ", "v", "a", "l", "i", "d">>

\* what generateResponseStream or its stream may throw with a key present
StreamErrors ==
    {ErrorOf(ApiKeyInvalidMessage), ErrorOf(QuotaMessage)}

\* what they may throw at all
ThrownErrors ==
    {ErrorOf(ApiKeyMissingMessage), ErrorOf(ApiKeyInvalidMessage),
     ErrorOf(QuotaMessage), NotAnError}

\* a continuation of handleUserInput touches neither the speech channel nor
\* the installed closures and timers
speechUntouched ==
    UNCHANGED <<speechVars, isIntended, engineVars, r, resubmits>>

\* generateEmailDraft resolved: the email branch of handleUserInput continues
EmailDrafted(i, draft) ==
    /\ i \in DOMAIN pending
    /\ pending[i].kind = "email"
    /\ \E d \in BetweenEvents :
          /\ now + d <= MaxClock
          /\ now' = now + d
          /\ allChats' = appendToChat(allChats, pending[i].chatId,
                 NewMessage(ToString(now + d), "assistant",
                     IF draft.recipient = <<>> THEN EmailNoRecipientText
                     ELSE <<"I've prepared an email draft to ">> \o draft.recipient
                              \o <<" for you.">>))
    /\ calls' = (IF draft.recipient = <<>> THEN NoCalls
                 ELSE [NoCalls EXCEPT !.opened =
                          <<"mailto:">> \o draft.recipient \o <<"?subject=">>
                              \o encodeURIComponent(draft.subject) \o <<"&body=">>
                              \o encodeURIComponent(draft.body)])
    /\ aiState' = "idle"
    /\ pending' = RemoveAt(pending, i)
    /\ speechUntouched
    /\ UNCHANGED <<activeChatId, currentError, uploadedFiles, isMicEnabled,
                   isImageMode, isDeepResearchMode>>

\* what generateEmailDraft rejects with when the key is present: the Error of
\* its catch block
EmailErrors ==
    {ErrorOf(EmailFailedText)}

\* what generateDetailedImagePrompt rejects with when the key is present
EnhanceErrors ==
    {ErrorOf(EnhanceFailedText)}

\* generateEmailDraft rejected
EmailFailed(i, error) ==
    /\ i \in DOMAIN pending
    /\ pending[i].kind = "email"
    /\ \E d \in BetweenEvents :
          /\ now + d <= MaxClock
          /\ now' = now + d
          /\ allChats' = appendToChat(allChats, pending[i].chatId,
                 NewMessage(ToString(now + d), "assistant",
                     IF error.isError THEN error.message
                     ELSE <<"I had trouble drafting that email.">>))
    /\ calls' = NoCalls
    /\ aiState' = "idle"
    /\ pending' = RemoveAt(pending, i)
    /\ speechUntouched
    /\ UNCHANGED <<activeChatId, currentError, uploadedFiles, isMicEnabled,
                   isImageMode, isDeepResearchMode>>

\* the spread { ...msg.imageGenData!, field: value }
withPrompt(msg, detailedPrompt) ==
    [msg EXCEPT !.text = EnhancedText,
                !.imageGenData = [@ EXCEPT !.present = TRUE, !.prompt = detailedPrompt]]

withImageError(msg, errorText) ==
    [msg EXCEPT !.text = errorText,
                !.imageGenData = [@ EXCEPT !.present = TRUE, !.status = "error",
                                           !.error = errorText]]

\* generateDetailedImagePrompt resolved: startImageGeneration ends, and
\* handleUserInput, which awaited it, turns image mode off
PromptEnhanced(i, detailedPrompt) ==
    /\ i \in DOMAIN pending
    /\ pending[i].kind = "enhance"
    /\ allChats' = updateMessage(allChats, pending[i].msgId,
                       [msg \in AllMessages(allChats) |-> withPrompt(msg, detailedPrompt)])
    /\ aiState' = "idle"
    /\ isImageMode' = FALSE
    /\ pending' = RemoveAt(pending, i)
    /\ calls' = NoCalls
    /\ speechUntouched
    /\ UNCHANGED <<activeChatId, currentError, uploadedFiles, isMicEnabled,
                   isDeepResearchMode, now>>

\* generateDetailedImagePrompt rejected
EnhanceFailed(i, error) ==
    /\ i \in DOMAIN pending
    /\ pending[i].kind = "enhance"
    /\ allChats' = updateMessage(allChats, pending[i].msgId,
                       [msg \in AllMessages(allChats) |->
                           withImageError(msg,
                               IF error.isError THEN error.message
                               ELSE <<"An unknown error occurred during prompt enhancement.">>)])
    /\ aiState' = "idle"
    /\ isImageMode' = FALSE
    /\ pending' = RemoveAt(pending, i)
    /\ calls' = NoCalls
    /\ speechUntouched
    /\ UNCHANGED <<activeChatId, currentError, uploadedFiles, isMicEnabled,
                   isDeepResearchMode, now>>

\* the text of the chunks a stream delivered, in arrival order
streamed(chunks) ==
    LET text[n \in 0..Len(chunks)] ==
            IF n = 0 THEN <<>> ELSE text[n - 1] \o chunks[n]
    IN  text[Len(chunks)]

\* fullText += chunk.text
appendChunk(fullText, chunk) ==
    fullText \o chunk

\* one chunk of the streamed completion arrives; the stream delivers at most
\* MaxStreamed characters
StreamChunk(i, chunk) ==
    /\ i \in DOMAIN pending
    /\ pending[i].kind = "chat"
    /\ Len(streamed(pending[i].received)) + Len(chunk) <= MaxStreamed
    /\ LET fullText == appendChunk(pending[i].fullText, chunk)
       IN  /\ allChats' = updateMessage(allChats, pending[i].msgId,
                              [m \in AllMessages(allChats) |-> [m EXCEPT !.text = fullText]])
           /\ pending' = [pending EXCEPT ![i].fullText = fullText,
                                         ![i].chunks = @ + 1,
                                         ![i].received = Append(@, chunk)]
    /\ calls' = NoCalls
    /\ speechUntouched
    /\ UNCHANGED <<activeChatId, aiState, currentError, uploadedFiles, isMicEnabled,
                   isImageMode, isDeepResearchMode, now>>

\* the grounding chunks of the last response: present when search was on
groundingOf(task) ==
    IF task.chunks > 0 /\ task.mode = "deep_research_gen" THEN <<"source">> ELSE <<>>

\* the stream ends, and the message is left as it is
StreamDoneStillStreaming(i) ==
    /\ i \in DOMAIN pending
    /\ pending[i].kind = "chat"
    /\ aiState' = "idle"
    /\ isDeepResearchMode' = FALSE
    /\ pending' = RemoveAt(pending, i)
    /\ calls' = NoCalls
    /\ speechUntouched
    /\ UNCHANGED <<allChats, activeChatId, currentError, uploadedFiles, isMicEnabled,
                   isImageMode, now>>

\* the stream ends
StreamDone(i) ==
    /\ i \in DOMAIN pending
    /\ pending[i].kind = "chat"
    /\ allChats' = updateMessage(allChats, pending[i].msgId,
                       [m \in AllMessages(allChats) |->
                           [m EXCEPT !.isStreaming = FALSE,
                                     !.groundingMetadata = groundingOf(pending[i])]])
    /\ aiState' = "idle"
    /\ isDeepResearchMode' = FALSE
    /\ pending' = RemoveAt(pending, i)
    /\ calls' = NoCalls
    /\ speechUntouched
    /\ UNCHANGED <<activeChatId, currentError, uploadedFiles, isMicEnabled,
                   isImageMode, now>>

\* the catch block with the test for the invalid key on the message as it is
errorMessageTextCaseSensitive(error) ==
    IF ~error.isError THEN CannotConnectText
    ELSE IF includes(error.message, LitApiKeyIsMissing) THEN ApiKeyMissingText
    ELSE IF includes(error.message, LitApiKeyNotValid) THEN ApiKeyInvalidText
    ELSE <<"An unexpected error occurred: ">> \o error.message

ImageFailedText ==
    <<"Sorry, I was unable to create the image. There might be an issue with the generation service.">>

\* what generateImage rejects with when the key is present
ImageErrors ==
    {ErrorOf(ImageFailedText)}

\* the base64 image bytes generateImage resolves with
ImageBytes ==
    {"aW1n"}

\* the success path with the new image in place of the history
withImageReplacing(msg, imageBase64, prompt) ==
    [msg EXCEPT !.text = <<"Generated an image based on the prompt: \"">> \o prompt \o <<"\"">>,
                !.imageGenData =
                    [@ EXCEPT !.present = TRUE, !.status = "done",
                              !.images = <<[url |-> <<"data:image/jpeg;base64,", imageBase64>>,
                                            prompt |-> prompt]>>]]

\* the updater of the success path of handleImagePromptConfirmation and of
\* handleImageAction
withImage(msg, imageBase64, prompt) ==
    [msg EXCEPT !.text = <<"Generated an image based on the prompt: \"">> \o prompt \o <<"\"">>,
                !.imageGenData =
                    [@ EXCEPT !.present = TRUE, !.status = "done",
                              !.images = Append(@, [url |-> <<"data:image/jpeg;base64,", imageBase64>>,
                                                    prompt |-> prompt])]]

\* the updater of its catch block: the text stays
withGenerationError(msg, errorText) ==
    [msg EXCEPT !.imageGenData = [@ EXCEPT !.present = TRUE, !.status = "error",
                                           !.error = errorText]]

\* generateImage resolved: handleImagePromptConfirmation continues, and its
\* finally block runs, or handleImageAction continues, which has none
ImageGenerated(i, imageBase64) ==
    /\ i \in DOMAIN pending
    /\ pending[i].kind \in {"image", "regenerate"}
    /\ allChats' = updateMessage(allChats, pending[i].msgId,
                       [msg \in AllMessages(allChats) |->
                           withImage(msg, imageBase64, pending[i].prompt)])
    /\ aiState' = (IF pending[i].kind = "image" THEN "idle" ELSE aiState)
    /\ pending' = RemoveAt(pending, i)
    /\ calls' = NoCalls
    /\ speechUntouched
    /\ UNCHANGED <<activeChatId, currentError, uploadedFiles, isMicEnabled,
                   isImageMode, isDeepResearchMode, now>>

\* generateImage rejected
ImageFailed(i, error) ==
    /\ i \in DOMAIN pending
    /\ pending[i].kind \in {"image", "regenerate"}
    /\ allChats' = updateMessage(allChats, pending[i].msgId,
                       [msg \in AllMessages(allChats) |->
                           withGenerationError(msg,
                               IF error.isError THEN error.message
                               ELSE <<"An unknown error occurred.">>)])
    /\ aiState' = (IF pending[i].kind = "image" THEN "idle" ELSE aiState)
    /\ pending' = RemoveAt(pending, i)
    /\ calls' = NoCalls
    /\ speechUntouched
    /\ UNCHANGED <<activeChatId, currentError, uploadedFiles, isMicEnabled,
                   isImageMode, isDeepResearchMode, now>>

\* the text the catch block of handleUserInput shows for what it caught
errorMessageText(error) ==
    IF ~error.isError THEN CannotConnectText
    ELSE IF includes(error.message, LitApiKeyIsMissing) THEN ApiKeyMissingText
    ELSE IF includes(toLowerCase(error.message), LitApiKeyNotValid) THEN ApiKeyInvalidText
    ELSE <<"An unexpected error occurred: ">> \o error.message

\* the request or the stream fails
StreamFailed(i, message) ==
    /\ i \in DOMAIN pending
    /\ pending[i].kind = "chat"
    /\ allChats' = updateMessage(allChats, pending[i].msgId,
                       [m \in AllMessages(allChats) |->
                           [m EXCEPT !.text = errorMessageText(message),
                                     !.isStreaming = FALSE]])
    /\ currentError' = errorMessageText(message)
    /\ aiState' = "idle"
    /\ isDeepResearchMode' = FALSE
    /\ pending' = RemoveAt(pending, i)
    /\ calls' = [NoCalls EXCEPT !.logged = TRUE, !.caught = message]
    /\ speechUntouched
    /\ UNCHANGED <<activeChatId, uploadedFiles, isMicEnabled, isImageMode, now>>

\* ------------------------------------------------------------------------
\* The user's discrete events
\* ------------------------------------------------------------------------

\* handleSend of InputBar, and onSendMessage of App:
\* handleUserInput(text, uploadedFiles)
SendMessage(text) ==
    /\ trim(text) # <<>> \/ r.uploadedFiles # <<>>
    /\ HandleUserInput(text, r.uploadedFiles, NoCalls)
    /\ UNCHANGED <<speechVars, restartTimers, synth, cancelled, activeChatId,
                   isMicEnabled, resubmits>>
    /\ SyncRender

\* handleUserInput called with any text and any attachments, by a caller
\* that is not a discrete event
handleUserInput(text, filesData) ==
    /\ HandleUserInput(text, filesData, NoCalls)
    /\ UNCHANGED <<speechVars, isIntended, engineVars, activeChatId,
                   isMicEnabled, r, resubmits>>

handleMicToggle ==
    /\ isMicEnabled' = ~isMicEnabled
    /\ calls' = NoCalls
    /\ UNCHANGED <<speechVars, restartTimers, synth, cancelled, allChats,
                   activeChatId, aiState, currentError, uploadedFiles,
                   isImageMode, isDeepResearchMode, now, pending, resubmits>>
    /\ SyncRender

\* the action menu opens only while no file is attached
handleSelectImageMode ==
    /\ r.uploadedFiles = <<>>
    /\ isImageMode' = TRUE
    /\ isDeepResearchMode' = FALSE
    /\ calls' = NoCalls
    /\ UNCHANGED <<speechVars, restartTimers, synth, cancelled, allChats,
                   activeChatId, aiState, currentError, uploadedFiles,
                   isMicEnabled, now, pending, resubmits>>
    /\ SyncRender

handleSelectDeepResearchMode ==
    /\ r.uploadedFiles = <<>>
    /\ isDeepResearchMode' = TRUE
    /\ isImageMode' = FALSE
    /\ calls' = NoCalls
    /\ UNCHANGED <<speechVars, restartTimers, synth, cancelled, allChats,
                   activeChatId, aiState, currentError, uploadedFiles,
                   isMicEnabled, now, pending, resubmits>>
    /\ SyncRender

\* the close button of the mode badge
handleCancelMode ==
    /\ r.isImageMode \/ r.isDeepResearchMode
    /\ isImageMode' = FALSE
    /\ isDeepResearchMode' = FALSE
    /\ calls' = NoCalls
    /\ UNCHANGED <<speechVars, restartTimers, synth, cancelled, allChats,
                   activeChatId, aiState, currentError, uploadedFiles,
                   isMicEnabled, now, pending, resubmits>>
    /\ SyncRender

\* the messages the chat interface shows
renderedMessages ==
    ChatMessages(r.allChats, r.activeChatId)

\* findMessage(messageId) in the chats of the last render: the first message
\* with the id in the first chat that holds one
findMessage(messageId) ==
    LET c == SetMin({k \in DOMAIN r.allChats :
                        \E m \in DOMAIN r.allChats[k].messages :
                            r.allChats[k].messages[m].id = messageId})
        m == SetMin({k \in DOMAIN r.allChats[c].messages :
                        r.allChats[c].messages[k].id = messageId})
    IN  r.allChats[c].messages[m]

\* the updater of handleImagePromptConfirmation(messageId, false)
withCancellation(msg, originalPrompt) ==
    [msg EXCEPT !.text = <<"Image generation for \"">> \o originalPrompt
                             \o <<"\" was cancelled.">>,
                !.imageGenData = NoImageGen]

\* the updater of handleImagePromptConfirmation(messageId, true)
withGenerating(msg, prompt) ==
    [msg EXCEPT !.text = <<"Generating an image for: \"">> \o prompt \o <<"\"">>,
                !.imageGenData = [@ EXCEPT !.present = TRUE, !.status = "generating"]]

\* Cancel (confirmed = FALSE) or Generate (confirmed = TRUE) of the i-th
\* message shown, which the image display offers while the status is
\* confirming_prompt: handleImagePromptConfirmation up to its await
handleImagePromptConfirmation(i, confirmed) ==
    /\ i \in DOMAIN renderedMessages
    /\ renderedMessages[i].imageGenData.present
    /\ renderedMessages[i].imageGenData.status = "confirming_prompt"
    /\ LET messageId == renderedMessages[i].id
           message   == findMessage(messageId)
       IN  IF \/ ~message.imageGenData.present
              \/ message.imageGenData.status # "confirming_prompt"
           THEN /\ calls' = NoCalls
                /\ UNCHANGED <<allChats, aiState, pending>>
           ELSE IF ~confirmed
           THEN /\ allChats' = updateMessage(allChats, messageId,
                                   [msg \in AllMessages(allChats) |->
                                       withCancellation(msg, message.imageGenData.originalPrompt)])
                /\ calls' = NoCalls
                /\ UNCHANGED <<aiState, pending>>
           ELSE /\ Len(pending) < MaxInFlight
                /\ allChats' = updateMessage(allChats, messageId,
                                   [msg \in AllMessages(allChats) |->
                                       withGenerating(msg, message.imageGenData.prompt)])
                /\ aiState' = "thinking"
                /\ pending' = Append(pending,
                                  [Task("image", Null, Null, messageId, "image_gen")
                                      EXCEPT !.prompt = message.imageGenData.prompt])
                /\ calls' = [NoCalls EXCEPT !.provider =
                                 [fn |-> "generateImage",
                                  prompt |-> message.imageGenData.prompt,
                                  search |-> FALSE]]
    /\ UNCHANGED <<speechVars, restartTimers, synth, cancelled, activeChatId,
                   currentError, uploadedFiles, isMicEnabled, isImageMode,
                   isDeepResearchMode, now, resubmits>>
    /\ SyncRender

\* the updater of handleImageAction(messageId, 'cancel')
withCancelled(msg) ==
    [msg EXCEPT !.text = <<"Image generation cancelled.">>,
                !.imageGenData = NoImageGen]

\* the updater of handleImageAction(messageId, 'regenerate')
withRegenerating(msg, prompt) ==
    [msg EXCEPT !.text = <<"Regenerating an image for: \"">> \o prompt \o <<"\"">>,
                !.imageGenData = [@ EXCEPT !.present = TRUE, !.status = "generating"]]

\* the image display offering Regenerate whatever the status
imageActionOfferedAnyStatus(i, action) ==
    /\ i \in DOMAIN renderedMessages
    /\ renderedMessages[i].imageGenData.present

\* what calls handleImageAction for the i-th message shown: Regenerate, which
\* the image display offers while the status is done and an image is there,
\* and onCancel, which the display of every message with imageGenData is
\* given
imageActionOffered(i, action) ==
    /\ i \in DOMAIN renderedMessages
    /\ renderedMessages[i].imageGenData.present
    /\ action = "regenerate"
          => /\ renderedMessages[i].imageGenData.status = "done"
             /\ renderedMessages[i].imageGenData.images # <<>>

\* handleImageAction(messageId, action) up to its await
handleImageAction(i, action) ==
    /\ imageActionOffered(i, action)
    /\ LET messageId == renderedMessages[i].id
           message   == findMessage(messageId)
       IN  IF ~message.imageGenData.present
           THEN /\ calls' = NoCalls
                /\ UNCHANGED <<allChats, pending>>
           ELSE IF action = "cancel"
           THEN /\ allChats' = updateMessage(allChats, messageId,
                                   [msg \in AllMessages(allChats) |-> withCancelled(msg)])
                /\ calls' = NoCalls
                /\ UNCHANGED pending
           ELSE /\ Len(pending) < MaxInFlight
                /\ Len(message.imageGenData.images) < MaxImages
                /\ allChats' = updateMessage(allChats, messageId,
                                   [msg \in AllMessages(allChats) |->
                                       withRegenerating(msg, message.imageGenData.prompt)])
                /\ pending' = Append(pending,
                                  [Task("regenerate", Null, Null, messageId, "image_gen")
                                      EXCEPT !.prompt = message.imageGenData.prompt])
                /\ calls' = [NoCalls EXCEPT !.provider =
                                 [fn |-> "generateImage",
                                  prompt |-> message.imageGenData.prompt,
                                  search |-> FALSE]]
    /\ UNCHANGED <<speechVars, restartTimers, synth, cancelled, activeChatId, aiState,
                   currentError, uploadedFiles, isMicEnabled, isImageMode,
                   isDeepResearchMode, now, resubmits>>
    /\ SyncRender

\* handleSpeakerClick of the i-th message shown: stopSpeaking() when it is
\* the one speaking, speak(text, id) otherwise
handleSpeakerClick(i) ==
    /\ i \in DOMAIN renderedMessages
    /\ LET m == renderedMessages[i]
       IN  /\ m.role = "assistant" /\ ~m.isStreaming /\ m.text # <<>>
           /\ ~m.imageGenData.present
           /\ IF r.speakingMessageId = m.id
              THEN /\ synth.state # "idle" => cancelled < MaxCancelled
                   /\ synth' = SynthIdle
                   /\ cancelled' = (IF synth.state # "idle" THEN cancelled + 1
                                    ELSE cancelled)
              ELSE /\ speakCancelled(m.text) <= MaxCancelled
                   /\ synth' = speakSynth(m.text, m.id)
                   /\ cancelled' = speakCancelled(m.text)
    /\ calls' = NoCalls
    /\ UNCHANGED <<speechVars, isIntended, recog, restartTimers, appVars, r,
                   now, pending, resubmits>>

\* handleFileChange of one file, up to setUploadedFiles; the input bar
\* disables the file input while a file is attached or a mode is selected
handleFileChange ==
    /\ r.uploadedFiles = <<>> /\ ~r.isImageMode /\ ~r.isDeepResearchMode
    /\ Len(uploadedFiles) < MaxFiles
    /\ uploadedFiles' = Append(uploadedFiles, UploadedFile)
    /\ calls' = NoCalls
    /\ UNCHANGED <<speechVars, isIntended, engineVars, allChats, activeChatId,
                   aiState, currentError, isMicEnabled, isImageMode,
                   isDeepResearchMode, r, now, pending, resubmits>>

\* the chat and the message handleEditMessage finds for an id in the chats
\* it was rendered with: the last chat that holds it, its first message there
targetChatIndex(messageId) ==
    SetMax({c \in DOMAIN r.allChats :
               \E m \in DOMAIN r.allChats[c].messages :
                   r.allChats[c].messages[m].id = messageId})

targetMessageIndex(messageId) ==
    SetMin({m \in DOMAIN r.allChats[targetChatIndex(messageId)].messages :
               r.allChats[targetChatIndex(messageId)].messages[m].id = messageId})

\* handleSaveEdit of the i-th message shown, and handleEditMessage of App up
\* to setTimeout
handleEditMessage(i, editedText) ==
    /\ i \in DOMAIN renderedMessages
    /\ renderedMessages[i].role = "user"
    /\ trim(editedText) # renderedMessages[i].text
    /\ calls' = NoCalls
    /\ LET messageId == renderedMessages[i].id
           newText   == trim(editedText)
           c         == targetChatIndex(messageId)
           m         == targetMessageIndex(messageId)
           truncatedMessages == SubSeq(r.allChats[c].messages, 1, m - 1)
           editedMessage     == r.allChats[c].messages[m]
           originalFiles     ==
               SelectSeq(r.uploadedFiles,
                   LAMBDA f : \E k \in DOMAIN editedMessage.fileInfos :
                                  editedMessage.fileInfos[k].name = f.name)
       IN  IF r.activeChatId = Null \/ newText = <<>>
           THEN UNCHANGED <<speechVars, isIntended, engineVars, appVars, r,
                            now, pending, resubmits>>
           ELSE /\ synth.state # "idle" => cancelled < MaxCancelled
                /\ Len(resubmits) < MaxResubmits
                /\ c \in DOMAIN allChats
                /\ synth' = SynthIdle
                /\ cancelled' = (IF synth.state # "idle" THEN cancelled + 1
                                 ELSE cancelled)
                /\ aiState' = "idle"
                /\ isImageMode' = FALSE
                /\ isDeepResearchMode' = FALSE
                /\ allChats' = [allChats EXCEPT ![c].messages = truncatedMessages]
                /\ resubmits' = Append(resubmits,
                                    [text |-> newText, files |-> originalFiles])
                /\ UNCHANGED <<speechVars, restartTimers, activeChatId,
                               currentError, uploadedFiles, isMicEnabled,
                               now, pending>>
                /\ SyncRender

\* the timer handleEditMessage set: handleUserInputRef.current(newText, files)
EditResubmit ==
    /\ resubmits # <<>>
    /\ resubmits' = Tail(resubmits)
    /\ HandleUserInput(Head(resubmits).text, Head(resubmits).files, NoCalls)
    /\ UNCHANGED <<speechVars, isIntended, engineVars, activeChatId,
                   isMicEnabled, r>>

\* ------------------------------------------------------------------------
\* Sessions: new, switch, delete
\* ------------------------------------------------------------------------

\* the session handleNewChat creates
newChatOf(newChatId) ==
    [id |-> newChatId, title |-> NewChatTitle, messages |-> <<InitMessage>>]

\* what handleNewChat sets besides allChats, at the clock value t
newChatResets(t) ==
    /\ synth.state # "idle" => cancelled < MaxCancelled
    /\ synth' = SynthIdle
    /\ cancelled' = (IF synth.state # "idle" THEN cancelled + 1 ELSE cancelled)
    /\ now' = t
    /\ activeChatId' = ToString(t)
    /\ aiState' = "idle"
    /\ currentError' = <<>>
    /\ uploadedFiles' = <<>>
    /\ isImageMode' = FALSE
    /\ isDeepResearchMode' = FALSE

\* handleNewChat
handleNewChat ==
    /\ Len(allChats) < MaxChats
    /\ \E d \in BetweenEvents :
          /\ now + d <= MaxClock
          /\ newChatResets(now + d)
          /\ allChats' = <<newChatOf(ToString(now + d))>> \o allChats
    /\ calls' = NoCalls
    /\ UNCHANGED <<speechVars, restartTimers, isMicEnabled, pending, resubmits>>
    /\ SyncRender

\* handleSwitchChat of the c-th session the history panel lists
handleSwitchChat(c) ==
    /\ c \in DOMAIN r.allChats
    /\ calls' = NoCalls
    /\ IF r.allChats[c].id = r.activeChatId
       THEN UNCHANGED <<speechVars, isIntended, engineVars, appVars, r,
                        now, pending, resubmits>>
       ELSE /\ synth.state # "idle" => cancelled < MaxCancelled
            /\ synth' = SynthIdle
            /\ cancelled' = (IF synth.state # "idle" THEN cancelled + 1 ELSE cancelled)
            /\ activeChatId' = r.allChats[c].id
            /\ aiState' = "idle"
            /\ isImageMode' = FALSE
            /\ isDeepResearchMode' = FALSE
            /\ UNCHANGED <<speechVars, restartTimers, allChats, currentError,
                           uploadedFiles, isMicEnabled, now, pending, resubmits>>
            /\ SyncRender

\* handleDeleteChat of the c-th session listed, confirmed by the user.  Its
\* updater calls handleNewChat() when the last session goes: when React runs
\* the updater while it renders, the update of handleNewChat is applied to
\* the [] the updater returns; when React runs it at once (eager), that
\* update is queued before the updater's own and the [] computed for the
\* updater is the state.
handleDeleteChat(c, eager) ==
    /\ c \in DOMAIN r.allChats
    /\ calls' = NoCalls
    /\ LET chatIdToDelete == r.allChats[c].id
           remainingChats == SelectSeq(allChats, LAMBDA chat : chat.id # chatIdToDelete)
       IN  IF r.activeChatId # chatIdToDelete
           THEN /\ allChats' = remainingChats
                /\ UNCHANGED <<synth, cancelled, activeChatId, aiState, currentError,
                               uploadedFiles, isImageMode, isDeepResearchMode, now>>
           ELSE IF remainingChats # <<>>
           THEN /\ allChats' = remainingChats
                /\ activeChatId' = remainingChats[1].id
                /\ UNCHANGED <<synth, cancelled, aiState, currentError,
                               uploadedFiles, isImageMode, isDeepResearchMode, now>>
           ELSE \E d \in BetweenEvents :
                   /\ now + d <= MaxClock
                   /\ newChatResets(now + d)
                   /\ allChats' = (IF eager THEN <<>>
                                   ELSE <<newChatOf(ToString(now + d))>>)
    /\ UNCHANGED <<speechVars, restartTimers, isMicEnabled, pending, resubmits>>
    /\ SyncRender

\* ------------------------------------------------------------------------
\* Specification
\* ------------------------------------------------------------------------

\* the recognizer
RecognizerEvents ==
    \/ \E event \in RecognitionEvents : RecogResult(event)
    \/ RecogStart
    \/ RecogEnd
    \/ RestartTimer
    \/ \E error \in RecognitionErrors : RecogError(error)

\* the synthesizer
SynthesizerEvents ==
    \/ UtteranceStart
    \/ UtteranceEnd
    \/ UtteranceError
    \/ \E event \in {"error", "end"} : CancelledUtteranceEvent(event)

\* the answers to a streamed chat completion
StreamEvents ==
    \/ \E i \in 1..MaxInFlight, chunk \in StreamChunks : StreamChunk(i, chunk)
    \/ \E i \in 1..MaxInFlight : StreamDone(i)
    \/ \E i \in 1..MaxInFlight, e \in StreamErrors : StreamFailed(i, e)

\* the answers to the other provider requests
ProviderEvents ==
    \/ \E i \in 1..MaxInFlight, draft \in EmailDrafts : EmailDrafted(i, draft)
    \/ \E i \in 1..MaxInFlight, e \in EmailErrors : EmailFailed(i, e)
    \/ \E i \in 1..MaxInFlight, p \in DetailedPrompts : PromptEnhanced(i, p)
    \/ \E i \in 1..MaxInFlight, e \in EnhanceErrors : EnhanceFailed(i, e)
    \/ \E i \in 1..MaxInFlight, image \in ImageBytes : ImageGenerated(i, image)
    \/ \E i \in 1..MaxInFlight, e \in ImageErrors : ImageFailed(i, e)

\* what the user does with the input bar and the messages
InputEvents ==
    \/ \E text \in TypedTexts \cup CommandTexts : SendMessage(text)
    \/ handleSelectImageMode
    \/ handleSelectDeepResearchMode
    \/ handleCancelMode
    \/ handleMicToggle
    \/ handleFileChange
    \/ \E i \in 1..(MaxMessages + 2) : handleSpeakerClick(i)
    \/ \E i \in 1..(MaxMessages + 2), confirmed \in BOOLEAN :
          handleImagePromptConfirmation(i, confirmed)
    \/ \E i \in 1..(MaxMessages + 2), action \in {"regenerate", "cancel"} :
          handleImageAction(i, action)
    \/ \E i \in 1..(MaxMessages + 2), text \in EditedTexts : handleEditMessage(i, text)
    \/ EditResubmit

Next ==
    \/ RecognizerEvents
    \/ SynthesizerEvents
    \/ StreamEvents
    \/ ProviderEvents
    \/ InputEvents
    \/ Render

Spec ==
    Init /\ [][Next]_vars

\* The user only speaks, no engine fails, and the provider answers a turn
\* with an empty stream.
NextVoice ==
    \/ \E event \in RecognitionEvents : RecogResult(event) /\ now' <= ShortClock
    \/ RecogStart
    \/ RecogEnd
    \/ RestartTimer
    \/ UtteranceStart
    \/ UtteranceEnd
    \/ \E event \in {"error", "end"} : CancelledUtteranceEvent(event)
    \/ \E i \in 1..MaxInFlight : StreamDone(i)
    \/ Render

SpecVoice ==
    Init /\ [][NextVoice]_vars

\* handleUserInput is called with every text and every set of attachments,
\* the user selects modes and attaches files, and the recognizer has not
\* started yet.
NextTurn ==
    \/ \E text \in TypedTexts, filesData \in Attachments :
          handleUserInput(text, filesData) /\ now' <= ShortClock
    \/ handleSelectImageMode
    \/ handleSelectDeepResearchMode
    \/ handleCancelMode
    \/ handleFileChange
    \/ \E i \in 1..MaxInFlight, chunk \in StreamChunks : StreamChunk(i, chunk)
    \/ \E i \in 1..MaxInFlight : StreamDone(i)
    \/ \E i \in 1..MaxInFlight : StreamFailed(i, ErrorOf(QuotaMessage))
    \/ \E i \in 1..MaxInFlight, draft \in EmailDrafts :
          EmailDrafted(i, draft) /\ now' <= ShortClock
    \/ \E i \in 1..MaxInFlight, e \in EmailErrors : EmailFailed(i, e) /\ now' <= ShortClock
    \/ \E i \in 1..MaxInFlight, p \in DetailedPrompts : PromptEnhanced(i, p)
    \/ \E i \in 1..MaxInFlight, e \in EnhanceErrors : EnhanceFailed(i, e)
    \/ Render

SpecTurn ==
    Init /\ [][NextTurn]_vars

\* The user only types and edits messages, and the recognizer has not
\* started yet.
NextEdit ==
    \/ \E text \in TypedTexts : SendMessage(text)
    \/ \E i \in 1..(MaxMessages + 2), text \in EditedTexts : handleEditMessage(i, text)
    \/ EditResubmit
    \/ \E i \in 1..MaxInFlight, draft \in EmailDrafts : EmailDrafted(i, draft)
    \/ \E i \in 1..MaxInFlight, e \in EmailErrors : EmailFailed(i, e)
    \/ StreamEvents
    \/ Render

SpecEdit ==
    Init /\ [][NextEdit]_vars

\* The recognizer with its errors, the microphone switch and playback of the
\* greeting.
NextListen ==
    \/ RecogStart
    \/ RecogEnd
    \/ RestartTimer
    \/ \E error \in RecognitionErrors : RecogError(error)
    \/ handleMicToggle
    \/ handleSpeakerClick(1)
    \/ UtteranceStart
    \/ UtteranceEnd
    \/ \E event \in {"error", "end"} : CancelledUtteranceEvent(event)
    \/ Render

\* the timer of recognition.onend fires, the recognizer delivers its end
\* event, and a recognizer that is started again and again does start
SpecListen ==
    /\ Init
    /\ [][NextListen]_vars
    /\ WF_vars(RestartTimer)
    /\ WF_vars(RecogEnd)
    /\ SF_vars(RecogStart)

\* The user says the wake phrase and uses the speaker button of the
\* greeting; the synthesizer delivers the events of its utterances, of the
\* removed ones too.
NextSpeak ==
    \/ RecogStart
    \/ RecogEnd
    \/ RestartTimer
    \/ \E event \in RecognitionEvents :
          RecogResult(event) /\ processResult(event) = "wake"
    \/ handleSpeakerClick(1)
    \/ UtteranceStart
    \/ UtteranceEnd
    \/ UtteranceError
    \/ \E event \in {"error", "end"} : CancelledUtteranceEvent(event)
    \/ Render

SpecSpeak ==
    /\ Init
    /\ [][NextSpeak]_vars
    /\ WF_vars(UtteranceStart)
    /\ WF_vars(UtteranceEnd)
    /\ WF_vars(\E event \in {"error", "end"} : CancelledUtteranceEvent(event))

\* Image mode is selected while no request is in flight; turns are sent in
\* and out of image mode and the provider answers them.
NextDispatch ==
    \/ handleSelectImageMode /\ pending = <<>>
    \/ \E text \in {TxtHi, TxtEmail} : SendMessage(text)
    \/ \E i \in 1..MaxInFlight, p \in DetailedPrompts : PromptEnhanced(i, p)
    \/ \E i \in 1..MaxInFlight, e \in EnhanceErrors : EnhanceFailed(i, e)
    \/ \E i \in 1..MaxInFlight, draft \in EmailDrafts : EmailDrafted(i, draft)
    \/ \E i \in 1..MaxInFlight : StreamDone(i)
    \/ Render

SpecDispatch ==
    Init /\ [][NextDispatch]_vars

\* The same events, where moreover every pending render is committed.
SpecMic ==
    /\ Init
    /\ [][NextListen]_vars
    /\ WF_vars(RestartTimer)
    /\ WF_vars(RecogEnd)
    /\ SF_vars(RecogStart)
    /\ WF_vars(Render)

\* Turns are sent while sessions are created and switched, and every
\* stream ends.
NextSwitch ==
    \/ handleNewChat
    \/ \E c \in 1..MaxChats : handleSwitchChat(c)
    \/ SendMessage(TxtHi)
    \/ \E i \in 1..MaxInFlight, chunk \in StreamChunks : StreamChunk(i, chunk)
    \/ \E i \in 1..MaxInFlight : StreamDone(i)
    \/ Render

SpecSwitch ==
    /\ Init
    /\ [][NextSwitch]_vars
    /\ \A i \in 1..MaxInFlight : WF_vars(StreamDone(i))

\* Sessions are created, switched and deleted, and turns are sent.
NextSession ==
    \/ handleNewChat
    \/ \E c \in 1..MaxChats : handleSwitchChat(c)
    \/ \E c \in 1..MaxChats, eager \in BOOLEAN : handleDeleteChat(c, eager)
    \/ SendMessage(TxtHi)
    \/ \E i \in 1..MaxInFlight : StreamDone(i)
    \/ Render

SpecSession ==
    Init /\ [][NextSession]_vars

\* Turns with and without an attached file, edits of their user messages and
\* the resubmissions.
NextEditFiles ==
    \/ handleFileChange
    \/ \E text \in {TxtBlank, TxtEmail} : SendMessage(text)
    \/ \E i \in 1..(MaxMessages + 2), text \in EditedTexts : handleEditMessage(i, text)
    \/ EditResubmit
    \/ \E i \in 1..MaxInFlight : StreamDone(i)
    \/ \E i \in 1..MaxInFlight, draft \in EmailDrafts : EmailDrafted(i, draft)
    \/ Render

SpecEditFiles ==
    Init /\ [][NextEditFiles]_vars

\* handleUserInput is called with the sentences of the local commands, with
\* and without attachments and in every mode, and generateEmailDraft answers.
NextCommand ==
    \/ \E text \in CommandTexts \cup OverlapTexts \cup {TxtHi},
          filesData \in Attachments :
          handleUserInput(text, filesData) /\ now' <= ShortClock
    \/ handleSelectImageMode
    \/ handleSelectDeepResearchMode
    \/ handleCancelMode
    \/ \E i \in 1..MaxInFlight, draft \in EmailDrafts :
          EmailDrafted(i, draft) /\ now' <= ShortClock
    \/ \E i \in 1..MaxInFlight, e \in EmailErrors : EmailFailed(i, e) /\ now' <= ShortClock
    \/ Render

SpecCommand ==
    Init /\ [][NextCommand]_vars

\* handleUserInput is called with the sentences of the open-site command and
\* no attachment, in no mode.
NextSite ==
    \/ \E text \in SiteTexts : handleUserInput(text, <<>>) /\ now' <= ShortClock
    \/ Render

SpecSite ==
    Init /\ [][NextSite]_vars

\* Chat turns, with and without attachments and in deep-research mode; the
\* provider streams the content whole or split, and the request or the
\* stream fails with every kind of thrown value.
NextStream ==
    \/ \E filesData \in Attachments :
          handleUserInput(TxtHi, filesData) /\ now' <= ShortClock
    \/ handleSelectDeepResearchMode
    \/ \E i \in 1..MaxInFlight, chunk \in SplitChunks : StreamChunk(i, chunk)
    \/ \E i \in 1..MaxInFlight : StreamDone(i)
    \/ \E i \in 1..MaxInFlight, e \in ThrownErrors : StreamFailed(i, e)
    \/ Render

SpecStream ==
    Init /\ [][NextStream]_vars

\* The key is missing: checkInitialization throws initError in every
\* provider function, so every request of a turn is rejected with it.
NextNoKey ==
    \/ \E text \in {TxtHi, TxtEmail}, filesData \in Attachments :
          handleUserInput(text, filesData)
    \/ handleSelectImageMode
    \/ handleSelectDeepResearchMode
    \/ \E i \in 1..MaxInFlight : StreamFailed(i, ErrorOf(ApiKeyMissingMessage))
    \/ \E i \in 1..MaxInFlight : EmailFailed(i, ErrorOf(ApiKeyMissingMessage))
    \/ \E i \in 1..MaxInFlight : EnhanceFailed(i, ErrorOf(ApiKeyMissingMessage))
    \/ Render

SpecNoKey ==
    Init /\ [][NextNoKey]_vars

\* the email requests in flight: each appends its reply under a fresh
\* Date.now() when it returns
emailsInFlight(tasks) ==
    Cardinality({i \in DOMAIN tasks : tasks[i].kind = "email"})

\* the provider answers the i-th request in flight: it returns, or it fails
ProviderReturns(i) ==
    \/ StreamDone(i)
    \/ StreamFailed(i, ErrorOf(QuotaMessage))
    \/ \E draft \in EmailDrafts :
          EmailDrafted(i, draft) /\ now' + emailsInFlight(pending') <= MaxClock
    \/ \E e \in EmailErrors :
          EmailFailed(i, e) /\ now' + emailsInFlight(pending') <= MaxClock
    \/ \E p \in DetailedPrompts : PromptEnhanced(i, p)
    \/ \E e \in EnhanceErrors : EnhanceFailed(i, e)

\* Turns of every kind (a local command, an email, a chat, deep research, an
\* image start) and the answers of the provider; the clock leaves every email
\* request in flight the tick its reply takes.
NextLive ==
    \/ \E text \in {TxtHi, TxtEmail, TxtOpen} :
          SendMessage(text) /\ now' + emailsInFlight(pending') <= MaxClock
    \/ handleSelectImageMode
    \/ handleSelectDeepResearchMode
    \/ \E i \in 1..MaxInFlight, chunk \in StreamChunks : StreamChunk(i, chunk)
    \/ \E i \in 1..MaxInFlight : ProviderReturns(i)
    \/ Render

\* every provider call eventually returns or fails
SpecLive ==
    /\ Init
    /\ [][NextLive]_vars
    /\ \A i \in 1..MaxInFlight : WF_vars(ProviderReturns(i))

\* The image workflow: turns in image mode, the answers to the prompt
\* enhancement, Cancel and Generate of the image display, and the answers to
\* the image generation.
NextImage ==
    \/ handleSelectImageMode
    \/ \E text \in {TxtHi, TxtEmail} : SendMessage(text) /\ r.isImageMode
    \/ \E i \in 1..MaxInFlight, p \in DetailedPrompts : PromptEnhanced(i, p)
    \/ \E i \in 1..MaxInFlight, e \in EnhanceErrors : EnhanceFailed(i, e)
    \/ \E i \in 1..(MaxMessages + 2), confirmed \in BOOLEAN :
          handleImagePromptConfirmation(i, confirmed)
    \/ \E i \in 1..MaxInFlight, image \in ImageBytes : ImageGenerated(i, image)
    \/ \E i \in 1..MaxInFlight, e \in ImageErrors : ImageFailed(i, e)
    \/ Render

SpecImage ==
    Init /\ [][NextImage]_vars

\* The image workflow with Regenerate.
NextRegenerate ==
    \/ handleSelectImageMode
    \/ SendMessage(TxtHi) /\ r.isImageMode
    \/ \E i \in 1..MaxInFlight, p \in DetailedPrompts : PromptEnhanced(i, p)
    \/ \E i \in 1..MaxInFlight, e \in EnhanceErrors : EnhanceFailed(i, e)
    \/ \E i \in 1..(MaxMessages + 2), confirmed \in BOOLEAN :
          handleImagePromptConfirmation(i, confirmed)
    \/ \E i \in 1..(MaxMessages + 2) : handleImageAction(i, "regenerate")
    \/ \E i \in 1..MaxInFlight, image \in ImageBytes : ImageGenerated(i, image)
    \/ \E i \in 1..MaxInFlight, e \in ImageErrors : ImageFailed(i, e)
    \/ Render

SpecRegenerate ==
    Init /\ [][NextRegenerate]_vars

\* The image workflow with Regenerate and with calls of onCancel.
NextCancel ==
    \/ handleSelectImageMode
    \/ SendMessage(TxtHi) /\ r.isImageMode /\ now' <= ShortClock
    \/ \E i \in 1..MaxInFlight, p \in DetailedPrompts : PromptEnhanced(i, p)
    \/ \E i \in 1..MaxInFlight, e \in EnhanceErrors : EnhanceFailed(i, e)
    \/ \E i \in 1..(MaxMessages + 2) : handleImagePromptConfirmation(i, TRUE)
    \/ \E i \in 1..(MaxMessages + 2), action \in {"regenerate", "cancel"} :
          handleImageAction(i, action)
    \/ \E i \in 1..MaxInFlight, image \in ImageBytes : ImageGenerated(i, image)
    \/ \E i \in 1..MaxInFlight, e \in ImageErrors : ImageFailed(i, e)
    \/ Render

SpecCancel ==
    Init /\ [][NextCancel]_vars

\* ------------------------------------------------------------------------
\* Wake word and command dispatch
\* ------------------------------------------------------------------------

\* C1: a result whose final transcript, lower-cased and trimmed, does not
\* contain the wake phrase and which is handled while isAwake is false
\* invokes no onListen and leaves isAwake false.
C1_NoWakeNoDispatch ==
    [][\A event \in RecognitionEvents :
          (/\ RecogResult(event)
           /\ ~isAwake
           /\ ~includes(transcriptLowerOf(event), WAKE_WORD))
          => (~calls'.listened /\ ~isAwake')]_vars

\* C2: a result whose final transcript contains the wake phrase and which is
\* handled while isAwake is false sets isAwake, queues the utterance "Yes?"
\* under the id jarvis-wake-ack, invokes no onListen and adds no message to
\* any session.
C2_WakeAcknowledged ==
    [][\A event \in RecognitionEvents :
          (/\ RecogResult(event)
           /\ ~isAwake
           /\ includes(transcriptLowerOf(event), WAKE_WORD))
          => /\ isAwake'
             /\ synth' = [state |-> "pending", text |-> WakeAckText, id |-> WakeAckId]
             /\ ~calls'.listened
             /\ allChats' = allChats]_vars

\* C3: every result with a non-empty final transcript that is handled while
\* isAwake is true is passed to onListen, once and unchanged, and leaves
\* isAwake false; and onListen is invoked only from a state in which isAwake
\* is true, so a wake-phrase result lies between any two commands.
C3_OneShotGate ==
    [][/\ \A event \in RecognitionEvents :
            (/\ RecogResult(event)
             /\ isAwake
             /\ transcriptLowerOf(event) # <<>>)
            => /\ calls'.listened
               /\ calls'.transcript = finalTranscriptOf(event)
               /\ ~isAwake'
       /\ calls'.listened => isAwake]_vars

\* C4: a result handled while an utterance is playing neither wakes the
\* assistant, nor queues an acknowledgement, nor invokes onListen.
C4_NoFeedbackLoop ==
    [][\A event \in RecognitionEvents :
          (RecogResult(event) /\ synth.state = "playing")
          => /\ isAwake' = isAwake
             /\ synth' = synth
             /\ ~calls'.listened]_vars

\* C5: whenever aiState is 'thinking', the recognizer is not running and
\* isListening is false.
C5_ThinkingNotListening ==
    aiState = "thinking" => (recog \notin {"running", "stopping"} /\ ~isListening)

\* C6: whenever an utterance is playing, aiState is not 'listening' and the
\* latest step did not report 'listening' to onStateChange.
C6_SpeakingNotListening ==
    synth.state = "playing" => (aiState # "listening" /\ calls.reported # "listening")

\* the recognizer started while an utterance was playing, and onstart held
\* the status back
C6_StartedDuringPlayback ==
    synth.state = "playing" /\ recog = "running" /\ calls.withheld = "listening"

\* ------------------------------------------------------------------------
\* Turns
\* ------------------------------------------------------------------------

\* C7: a call of handleUserInput whose text is empty after trimming and which
\* has no attachments changes neither the sessions, the active session,
\* aiState, the error banner, the pending uploads, the mode flags nor the
\* requests in flight, and issues no provider request.
C7_BlankInputIsNoOp ==
    [][(/\ calls'.input.called
        /\ trim(calls'.input.text) = <<>>
        /\ calls'.input.files = <<>>)
       => /\ UNCHANGED <<allChats, activeChatId, aiState, currentError,
                         uploadedFiles, isImageMode, isDeepResearchMode, pending>>
          /\ calls'.provider = NoProviderCall
          /\ calls'.opened = <<>>
          /\ calls'.note = <<>>]_vars

\* handleUserInput got a blank text and no attachments while a file was
\* waiting in the input bar
C7_BlankInputHandled ==
    /\ calls.input.called
    /\ calls.input.text = TxtBlank
    /\ calls.input.files = <<>>
    /\ uploadedFiles # <<>>

\* C8: the assistant message a turn appends in its synchronous part comes
\* right after that turn's user message, and the reply a turn appends when
\* its email draft arrives has that turn's user message before it in the
\* session.
C8_AssistantAfterItsUserMessage ==
    [][/\ (calls'.input.called /\ allChats' # allChats)
          => LET msgs == ChatMessages(allChats', r.activeChatId)
                 n    == Len(msgs)
             IN  /\ n > 0
                 /\ msgs[n].role = "user" => msgs[n].text = calls'.input.text
                 /\ msgs[n].role = "assistant"
                       => /\ n > 1
                          /\ msgs[n - 1].role = "user"
                          /\ msgs[n - 1].text = calls'.input.text
       /\ \A i \in DOMAIN pending :
             (/\ pending[i].kind = "email"
              /\ pending' = RemoveAt(pending, i)
              /\ allChats' # allChats)
             => LET msgs == ChatMessages(allChats', pending[i].chatId)
                IN  \E u \in 1..(Len(msgs) - 1) :
                       msgs[u].role = "user" /\ msgs[u].id = pending[i].userId]_vars

\* C9: a turn handled in image mode with a text that is not blank requests a
\* detailed prompt for the trimmed text, appends the image message for it and
\* runs neither a local command nor a chat completion; with a blank text it
\* requests nothing and turns image mode off; and image mode is off when the
\* prompt enhancement of a turn ends, resolved or rejected.
C9_ImageModeTurn ==
    [][/\ (/\ calls'.input.called
           /\ r.isImageMode
           /\ ~rejectsInput(calls'.input.text, calls'.input.files))
          => /\ calls'.opened = <<>>
             /\ calls'.note = <<>>
             /\ IF trim(calls'.input.text) # <<>>
                THEN LET msgs == ChatMessages(allChats', r.activeChatId)
                     IN  /\ calls'.provider =
                               [fn |-> "generateDetailedImagePrompt",
                                prompt |-> trim(calls'.input.text), search |-> FALSE]
                         /\ msgs # <<>>
                         /\ msgs[Len(msgs)].imageGenData.present
                         /\ msgs[Len(msgs)].imageGenData.originalPrompt
                               = trim(calls'.input.text)
                ELSE /\ calls'.provider = NoProviderCall
                     /\ ~isImageMode'
       /\ \A i \in DOMAIN pending :
             (pending[i].kind = "enhance" /\ pending' = RemoveAt(pending, i))
             => ~isImageMode']_vars

\* a sentence that matches a local command started the image workflow
C9_ImageWorkflowStarted ==
    /\ calls.input.called
    /\ emailIntentRegex(calls.input.text)
    /\ calls.provider.fn = "generateDetailedImagePrompt"

\* C10: a turn handled in deep-research mode requests a streamed chat
\* completion for its text and runs no local command, whatever the text; and
\* the deep-research flag is false when the stream of such a turn ends, done
\* or failed.
C10_DeepResearchTurn ==
    [][/\ (/\ calls'.input.called
           /\ r.isDeepResearchMode
           /\ ~r.isImageMode
           /\ ~rejectsInput(calls'.input.text, calls'.input.files))
          => /\ calls'.provider.fn = "generateResponseStream"
             /\ calls'.provider.prompt = calls'.input.text
             /\ calls'.opened = <<>>
             /\ calls'.note = <<>>
       /\ \A i \in DOMAIN pending :
             (/\ pending[i].kind = "chat"
              /\ pending[i].mode = "deep_research_gen"
              /\ pending' = RemoveAt(pending, i))
             => ~isDeepResearchMode']_vars

\* a sentence that matches a local command was sent to the chat completion
\* in deep-research mode
C10_DeepResearchCommandSentence ==
    /\ calls.input.called
    /\ emailIntentRegex(calls.input.text)
    /\ calls.provider.fn = "generateResponseStream"
    /\ calls.provider.search

\* ------------------------------------------------------------------------
\* Chat completion requests
\* ------------------------------------------------------------------------

\* C11: a step that requests a streamed chat completion enables the search
\* tool if and only if the turn was dispatched in deep-research mode: the
\* mode recorded on the turn's user message and captured by the request is
\* deep_research_gen.
C11_SearchIffDeepResearch ==
    [][calls'.provider.fn = "generateResponseStream"
          => LET task == pending'[Len(pending')]
                 msgs == ChatMessages(allChats', task.chatId)
             IN  /\ Len(msgs) >= 2
                 /\ msgs[Len(msgs) - 1].id = task.userId
                 /\ msgs[Len(msgs) - 1].role = "user"
                 /\ calls'.provider.search
                       <=> (msgs[Len(msgs) - 1].mode = "deep_research_gen")
                 /\ calls'.provider.search <=> (task.mode = "deep_research_gen")]_vars

\* a deep-research turn with an attachment requested a completion with the
\* search tool
C11_SearchRequestedWithAttachment ==
    /\ calls.provider.fn = "generateResponseStream"
    /\ calls.provider.search
    /\ calls.input.files # <<>>
    /\ pending # <<>>
    /\ pending[Len(pending)].mode = "deep_research_gen"

\* ------------------------------------------------------------------------
\* Local commands
\* ------------------------------------------------------------------------

\* the last message of the chat is a plain assistant reply that is not
\* streaming, and the one before it is the turn's user message
C12_RepliedOnce(before, after, text) ==
    /\ Len(after) = Len(before) + 2
    /\ after[Len(after) - 1].role = "user"
    /\ after[Len(after) - 1].text = text
    /\ after[Len(after)].role = "assistant"
    /\ ~after[Len(after)].isStreaming
    /\ ~after[Len(after)].imageGenData.present

\* C12: a call of handleUserInput runs a local command only when the text is
\* not blank, there is no attachment and neither mode is on; then the first
\* of email, YouTube search, open-site, note whose pattern matches handles
\* the turn: YouTube, open-site and note append the user message and exactly
\* one assistant reply that is not streaming, request nothing from the
\* provider and leave aiState idle; email requests only the email draft and,
\* when the draft arrives or fails, appends exactly one assistant reply that
\* is not streaming and sets aiState to idle.  A text that matches both the
\* open-site and the note pattern opens the site and downloads no note.
C12_FirstCommandWins ==
    [][/\ (calls'.input.called /\ ~rejectsInput(calls'.input.text, calls'.input.files))
          => LET text     == calls'.input.text
                 eligible == /\ calls'.input.files = <<>>
                             /\ ~r.isImageMode
                             /\ ~r.isDeepResearchMode
                 before   == ChatMessages(allChats, r.activeChatId)
                 after    == ChatMessages(allChats', r.activeChatId)
                 isEmail  == emailIntentRegex(text)
                 isYt     == ~isEmail /\ youtubeSearchRegex(text).matched
                 isOpen   == ~isEmail /\ ~isYt /\ openWebsiteRegex(text).matched
                 isNote   == ~isEmail /\ ~isYt /\ ~isOpen /\ noteRegex(text).matched
             IN  /\ ~eligible
                       => /\ calls'.opened = <<>>
                          /\ calls'.note = <<>>
                          /\ calls'.provider.fn # "generateEmailDraft"
                          /\ ~C12_RepliedOnce(before, after, text)
                 /\ (eligible /\ isEmail)
                       => /\ calls'.provider.fn = "generateEmailDraft"
                          /\ calls'.opened = <<>>
                          /\ calls'.note = <<>>
                          /\ Len(after) = Len(before) + 1
                          /\ after[Len(after)].role = "user"
                 /\ (eligible /\ isYt)
                       => /\ calls'.opened # <<>>
                          /\ calls'.opened[1] = "https://www.youtube.com/results?search_query="
                          /\ calls'.note = <<>>
                 /\ (eligible /\ isOpen)
                       => /\ calls'.opened = siteUrl(openWebsiteRegex(text).group)
                          /\ calls'.note = <<>>
                 /\ (eligible /\ isNote)
                       => /\ calls'.opened = <<>>
                          /\ calls'.note = noteRegex(text).group
                 /\ (eligible /\ (isYt \/ isOpen \/ isNote))
                       => /\ C12_RepliedOnce(before, after, text)
                          /\ calls'.provider = NoProviderCall
                          /\ pending' = pending
                          /\ aiState' = "idle"
                          /\ \A j \in DOMAIN after : after[j].isStreaming
                                => \E k \in DOMAIN before : before[k] = after[j]
                 /\ (eligible /\ ~(isEmail \/ isYt \/ isOpen \/ isNote))
                       => /\ calls'.provider.fn = "generateResponseStream"
                          /\ calls'.opened = <<>>
                          /\ calls'.note = <<>>
       /\ \A i \in DOMAIN pending :
             (pending[i].kind = "email" /\ pending' = RemoveAt(pending, i))
             => LET before == ChatMessages(allChats, pending[i].chatId)
                    after  == ChatMessages(allChats', pending[i].chatId)
                IN  /\ Len(after) = Len(before) + 1
                    /\ SubSeq(after, 1, Len(before)) = before
                    /\ after[Len(after)].role = "assistant"
                    /\ ~after[Len(after)].isStreaming
                    /\ calls'.provider = NoProviderCall
                    /\ aiState' = "idle"]_vars

\* a sentence that matches both the open-site and the note pattern opened a
\* site and downloaded no note
C12_OpenBeatsNote ==
    /\ calls.input.called
    /\ openWebsiteRegex(calls.input.text).matched
    /\ noteRegex(calls.input.text).matched
    /\ calls.opened = siteUrl(openWebsiteRegex(calls.input.text).group)
    /\ calls.note = <<>>
    /\ aiState = "idle"

\* X starts with a URL scheme: a letter, then letters, digits, "+", "-" or
\* ".", then "://"
C13_HasScheme(x) ==
    \E i \in 2..Len(x) :
        /\ HasAt(x, <<":", "/", "/">>, i)
        /\ \E n \in DOMAIN LowerChars : toLowerChar(x[1]) = LowerChars[n]
        /\ \A k \in 1..(i - 1) :
              \/ \E n \in DOMAIN LowerChars : toLowerChar(x[k]) = LowerChars[n]
              \/ x[k] \in DigitChars \cup {"+", "-", "."}

\* the URL the open-site command is to open for the site name X
C13_NormalizedUrl(x) ==
    IF ~includes(x, <<".">>) /\ ~includes(toLowerCase(x), LitLocalhost)
    THEN <<"https://">> \o removeSpaces(x) \o <<".com">>
    ELSE IF C13_HasScheme(x) THEN x
    ELSE <<"https://">> \o x

\* C13: after a turn handled by the open-site command, the URL given to
\* window.open is, for the captured and trimmed site name X: "https://" + X
\* without white space + ".com" when X has no dot and does not contain
\* "localhost"; otherwise X itself when X has a scheme, and "https://" + X
\* when it has none.  For "open youtube" it is "https://youtube.com".
C13_SiteUrlNormalized ==
    (/\ calls.input.called
     /\ calls.input.files = <<>>
     /\ openWebsiteRegex(calls.input.text).matched
     /\ calls.opened # <<>>)
    => /\ calls.opened = C13_NormalizedUrl(trim(openWebsiteRegex(calls.input.text).group))
       /\ calls.input.text = TxtOpen => calls.opened = <<"https://", "y", "o", "u", "t", "u", "b", "e", ".com">>

\* ------------------------------------------------------------------------
\* Streaming
\* ------------------------------------------------------------------------

\* the assistant messages of the session store with the given id
C14_MessagesWithId(chats, id) ==
    {m \in AllMessages(chats) : m.id = id /\ m.role = "assistant"}

\* C14: while the stream of a chat turn delivers chunks, the text of the
\* turn's assistant message is the concatenation of the chunks received so
\* far, in arrival order, and from the second chunk on the text before the
\* chunk is a prefix of the text after it; when the stream ends without an
\* error the text stays the concatenation of all chunks, which is the
\* streamed content however it was split.
C14_TextIsConcatenation ==
    [][\A i \in DOMAIN pending :
          pending[i].kind = "chat"
          => LET id     == pending[i].msgId
                 before == C14_MessagesWithId(allChats, id)
                 after  == C14_MessagesWithId(allChats', id)
             IN  /\ (/\ Len(pending') = Len(pending)
                     /\ pending'[i].received # pending[i].received)
                       => /\ Len(pending'[i].received) = Len(pending[i].received) + 1
                          /\ before # {} => after # {}
                          /\ \A m \in after :
                                /\ m.text = streamed(pending'[i].received)
                                /\ m.isStreaming
                          /\ pending[i].received # <<>>
                                => \A m \in before : \A n \in after :
                                      /\ Len(m.text) <= Len(n.text)
                                      /\ SubSeq(n.text, 1, Len(m.text)) = m.text
                 /\ (pending' = RemoveAt(pending, i) /\ ~calls'.logged)
                       => /\ before # {} => after # {}
                          /\ \A m \in after :
                                /\ ~m.isStreaming
                                /\ m.text = IF pending[i].received = <<>>
                                            THEN PlaceholderText
                                            ELSE streamed(pending[i].received)]_vars

\* C15: the assistant message the chat branch appends is streaming from the
\* step that appends it; it stays streaming while its stream is in flight;
\* the step that ends the stream, done or failed, sets isStreaming to false;
\* and an assistant message that is not streaming is not streaming in any
\* later state.
C15_StreamingEndsOnce ==
    [][/\ calls'.provider.fn = "generateResponseStream"
          => \E m \in C14_MessagesWithId(allChats', pending'[Len(pending')].msgId) :
                m.isStreaming
       /\ \A i \in DOMAIN pending :
             pending[i].kind = "chat"
             => LET before == C14_MessagesWithId(allChats, pending[i].msgId)
                    after  == C14_MessagesWithId(allChats', pending[i].msgId)
                IN  /\ \A m \in before : m.isStreaming
                    /\ (i \in DOMAIN pending' /\ pending'[i].msgId = pending[i].msgId)
                          => \A m \in after : m.isStreaming
                    /\ pending' = RemoveAt(pending, i)
                          => \A m \in after : ~m.isStreaming
       /\ \A m \in AllMessages(allChats) :
             (m.role = "assistant" /\ ~m.isStreaming)
             => \A n \in C14_MessagesWithId(allChats', m.id) : ~n.isStreaming]_vars

\* C16: the step in which the request or the stream of a chat turn fails,
\* before or after chunks, replaces the text of the turn's assistant message
\* by an error description, sets its isStreaming to false and sets the error
\* banner to the same text; the description is a different one for a missing
\* key, for a key the provider rejects and for any other error.
C16_FailureShown ==
    [][\A i \in DOMAIN pending :
          (pending[i].kind = "chat" /\ pending' = RemoveAt(pending, i) /\ calls'.logged)
          => LET after == C14_MessagesWithId(allChats', pending[i].msgId)
                 e     == calls'.caught
             IN  /\ after # {}
                 /\ \A m \in after : m.text = currentError' /\ ~m.isStreaming
                 /\ currentError' # <<>>
                 /\ currentError' # PlaceholderText
                 /\ currentError' # streamed(pending[i].received)
                 /\ e = ErrorOf(ApiKeyMissingMessage) => currentError' = ApiKeyMissingText
                 /\ e = ErrorOf(ApiKeyInvalidMessage) => currentError' = ApiKeyInvalidText
                 /\ e = ErrorOf(QuotaMessage)
                       => currentError' = <<"An unexpected error occurred: ">> \o QuotaMessage
                 /\ Cardinality({ApiKeyMissingText, ApiKeyInvalidText,
                                 <<"An unexpected error occurred: ">> \o QuotaMessage}) = 3]_vars

\* a chat completion failed for a rejected key, and the message and the
\* banner hold the text for the invalid key
C16_InvalidKeyShown ==
    /\ calls.logged
    /\ calls.caught = ErrorOf(ApiKeyInvalidMessage)
    /\ currentError = ApiKeyInvalidText
    /\ \E m \in AllMessages(allChats) :
          /\ m.role = "assistant"
          /\ m.text = ApiKeyInvalidText
          /\ ~m.isStreaming
          /\ m.groundingMetadata = <<>>

\* ------------------------------------------------------------------------
\* Missing credential
\* ------------------------------------------------------------------------

\* the text tells the user to configure the key
C17_ConfigurationInstruction(text) ==
    \/ text = ApiKeyMissingText
    \/ includes(text, ApiKeyMissingMessage)

\* C17: with the key missing, the step in which the request of a turn is
\* rejected (chat completion, email draft, prompt enhancement) leaves the
\* turn's assistant message with a text that tells the user to configure the
\* key and not streaming, and the error banner holds the same text.
C17_MissingKeyShown ==
    [][\A i \in DOMAIN pending :
          pending' = RemoveAt(pending, i)
          => LET msgs   == ChatMessages(allChats', pending[i].chatId)
                 shown  == IF pending[i].kind = "email"
                           THEN {msgs[Len(msgs)]}
                           ELSE C14_MessagesWithId(allChats', pending[i].msgId)
             IN  /\ shown # {}
                 /\ \A m \in shown :
                       /\ m.role = "assistant"
                       /\ C17_ConfigurationInstruction(m.text)
                       /\ ~m.isStreaming
                       /\ currentError' = m.text]_vars

\* ------------------------------------------------------------------------
\* Image workflow
\* ------------------------------------------------------------------------

\* the places <<chat, message>> of the assistant messages with the id
C20_Places(chats, id) ==
    {p \in (DOMAIN chats) \X (1..(MaxMessages + 2)) :
        /\ p[2] \in DOMAIN chats[p[1]].messages
        /\ chats[p[1]].messages[p[2]].id = id
        /\ chats[p[1]].messages[p[2]].role = "assistant"}

C20_IsCancellationNotice(text) ==
    /\ Len(text) >= 2
    /\ text[1] = "Image generation for \""
    /\ text[Len(text)] = "\" was cancelled."

\* the places of the messages a rejection has left: no imageGenData, and the
\* cancellation notice as text
C20_Rejected(chats) ==
    {p \in (DOMAIN chats) \X (1..(MaxMessages + 2)) :
        /\ p[2] \in DOMAIN chats[p[1]].messages
        /\ chats[p[1]].messages[p[2]].role = "assistant"
        /\ ~chats[p[1]].messages[p[2]].imageGenData.present
        /\ C20_IsCancellationNotice(chats[p[1]].messages[p[2]].text)}

\* C20: Cancel on a message whose status is confirming_prompt clears its
\* imageGenData and makes its text a cancellation notice, and the imageGenData
\* of a message so rejected is cleared in every later state, also after the
\* prompt enhancement of its turn has resolved or failed.
C20_RejectionIsTerminal ==
    [][/\ \A i \in 1..(MaxMessages + 2) :
            (/\ handleImagePromptConfirmation(i, FALSE)
             /\ \A p \in C20_Places(allChats, renderedMessages[i].id) :
                   /\ allChats[p[1]].messages[p[2]].imageGenData.present
                   /\ allChats[p[1]].messages[p[2]].imageGenData.status = "confirming_prompt")
            => /\ C20_Places(allChats', renderedMessages[i].id) # {}
               /\ C20_Places(allChats', renderedMessages[i].id) \subseteq C20_Rejected(allChats')
       /\ \A p \in C20_Rejected(allChats) :
            /\ p[1] \in DOMAIN allChats'
            /\ p[2] \in DOMAIN allChats'[p[1]].messages
            /\ ~allChats'[p[1]].messages[p[2]].imageGenData.present]_vars

\* the first half of C20 alone: the step of Cancel
C20_CancelClears ==
    [][\A i \in 1..(MaxMessages + 2) :
            (/\ handleImagePromptConfirmation(i, FALSE)
             /\ \A p \in C20_Places(allChats, renderedMessages[i].id) :
                   /\ allChats[p[1]].messages[p[2]].imageGenData.present
                   /\ allChats[p[1]].messages[p[2]].imageGenData.status = "confirming_prompt")
            => /\ C20_Places(allChats', renderedMessages[i].id) # {}
               /\ C20_Places(allChats', renderedMessages[i].id) \subseteq C20_Rejected(allChats')]_vars

\* a message was rejected while the enhancement of its turn was in flight
C20_RejectedWhileEnhancing ==
    \E p \in C20_Rejected(allChats), i \in DOMAIN pending :
        /\ pending[i].kind = "enhance"
        /\ pending[i].msgId = allChats[p[1]].messages[p[2]].id

\* the places <<chat, message>> of the assistant messages
C19_AssistantPlaces(chats) ==
    {p \in (DOMAIN chats) \X (1..(MaxMessages + 2)) :
        /\ p[2] \in DOMAIN chats[p[1]].messages
        /\ chats[p[1]].messages[p[2]].role = "assistant"}

\* the step that starts the image workflow: it appends exactly one assistant
\* message, which awaits the confirmation of the prompt, names the prompt
\* given and holds no image
C19_StartAppendsOne ==
    [][(/\ Len(pending') = Len(pending) + 1
        /\ pending'[Len(pending')].kind = "enhance")
       => LET P     == calls'.provider.prompt
              added == C19_AssistantPlaces(allChats') \ C19_AssistantPlaces(allChats)
          IN  /\ P = trim(calls'.input.text)
              /\ calls'.provider.fn = "generateDetailedImagePrompt"
              /\ Cardinality(C19_AssistantPlaces(allChats'))
                    = Cardinality(C19_AssistantPlaces(allChats)) + 1
              /\ Cardinality(added) = 1
              /\ \A p \in added :
                    LET m == allChats'[p[1]].messages[p[2]]
                    IN  /\ m.id = pending'[Len(pending')].msgId
                        /\ m.imageGenData.present
                        /\ m.imageGenData.status = "confirming_prompt"
                        /\ m.imageGenData.originalPrompt = P
                        /\ m.imageGenData.images = <<>>]_vars

\* the step in which the enhancement fails: the status becomes error, the
\* failure description is stored, and no provider call is made
C19_FailureIsError ==
    [][\A i \in DOMAIN pending :
          (pending[i].kind = "enhance" /\ pending' = RemoveAt(pending, i)
             /\ \E e \in EnhanceErrors : EnhanceFailed(i, e))
          => /\ C20_Places(allChats', pending[i].msgId) # {}
             /\ \A p \in C20_Places(allChats', pending[i].msgId) :
                   LET m == allChats'[p[1]].messages[p[2]]
                   IN  /\ m.imageGenData.present
                       /\ m.imageGenData.status = "error"
                       /\ m.imageGenData.error = EnhanceFailedText
                       /\ m.text = EnhanceFailedText
             /\ calls'.provider = NoProviderCall
             /\ \A j \in DOMAIN pending' :
                   pending'[j].kind = "chat" => pending'[j].userId # pending[i].userId]_vars

\* the step in which the enhancement succeeds: the enhanced prompt is stored
\* and the status is confirming_prompt
C19_SuccessKeepsConfirming ==
    [][\A i \in DOMAIN pending, d \in DetailedPrompts :
          (pending[i].kind = "enhance" /\ PromptEnhanced(i, d))
          => /\ C20_Places(allChats', pending[i].msgId) # {}
             /\ \A p \in C20_Places(allChats', pending[i].msgId) :
                   LET m == allChats'[p[1]].messages[p[2]]
                   IN  /\ m.imageGenData.present
                       /\ m.imageGenData.prompt = d
                       /\ m.imageGenData.status = "confirming_prompt"]_vars

\* C19: starting the image workflow with prompt P appends exactly one
\* assistant message whose imageGenData has status confirming_prompt,
\* originalPrompt P and no images; when the enhancement succeeds the enhanced
\* prompt is stored and the status is still confirming_prompt; when it fails
\* the status becomes error with the failure description, and no chat
\* completion is requested for the turn.
C19_ImageWorkflowStart ==
    /\ C19_StartAppendsOne
    /\ C19_SuccessKeepsConfirming
    /\ C19_FailureIsError

\* the enhanced prompt arrived for a message that awaits confirmation
C19_PromptSuggested ==
    \E m \in AllMessages(allChats) :
        /\ m.role = "assistant"
        /\ m.imageGenData.present
        /\ m.imageGenData.status = "confirming_prompt"
        /\ m.imageGenData.prompt \in DetailedPrompts
        /\ m.imageGenData.originalPrompt = TxtHi
        /\ m.text = EnhancedText

\* ------------------------------------------------------------------------
\* Termination
\* ------------------------------------------------------------------------

\* the ids Date.now() and Date.now() + 1 give to messages
C18_MessageIds ==
    {ToString(n) : n \in 1..(MaxClock + 1)}

\* the request of the turn whose assistant message has the id is in flight
C18_InFlight(id) ==
    \E i \in DOMAIN pending : pending[i].msgId = id

C18_Streaming(id) ==
    \E m \in AllMessages(allChats) : m.role = "assistant" /\ m.id = id /\ m.isStreaming

\* C18: when every provider call eventually returns or fails, every turn that
\* was dispatched completes with aiState reset to idle (a local command in
\* the step that dispatches it, a turn that awaits the provider in the step
\* in which the provider answers, which eventually happens), and the
\* assistant message of a chat turn eventually has isStreaming = false.
C18_TurnsTerminate ==
    /\ [][/\ (calls'.input.called /\ Len(pending') = Len(pending)) => aiState' = "idle"
          /\ Len(pending') < Len(pending) => aiState' = "idle"]_vars
    /\ (aiState = "thinking") ~> (aiState = "idle")
    /\ \A id \in C18_MessageIds : C18_InFlight(id) ~> ~C18_InFlight(id)
    /\ \A id \in C18_MessageIds : C18_Streaming(id) ~> ~C18_Streaming(id)

\* a chat turn and an email turn were in flight together, and both have
\* ended: nothing is in flight, aiState is idle, no message is streaming
C18_BothEnded ==
    /\ pending = <<>>
    /\ aiState = "idle"
    /\ \E m \in AllMessages(allChats) : m.role = "assistant" /\ m.mode = "none" /\ m.text = <<"o", "k">>
    /\ \E m \in AllMessages(allChats) : m.role = "user" /\ m.text = TxtEmail
    /\ \A m \in AllMessages(allChats) : ~m.isStreaming

\* the images of the message at a place
C21_Images(chats, p) ==
    chats[p[1]].messages[p[2]].imageGenData.images

\* C21: the images of a message are append-only.  A generation that succeeds,
\* after Generate or after Regenerate, appends exactly one {url, prompt} entry
\* at the end and leaves the earlier entries; one that fails leaves images as
\* it is; no step of the image workflow shortens images or changes an entry;
\* when the generation after Generate succeeds there is exactly one entry,
\* and when the one after the next Regenerate succeeds there are two.
C21_ImagesAppendOnly ==
    [][/\ \A p \in C19_AssistantPlaces(allChats) :
            /\ p \in C19_AssistantPlaces(allChats')
            /\ Len(C21_Images(allChats', p)) >= Len(C21_Images(allChats, p))
            /\ SubSeq(C21_Images(allChats', p), 1, Len(C21_Images(allChats, p)))
                  = C21_Images(allChats, p)
       /\ \A i \in DOMAIN pending, image \in ImageBytes :
            ImageGenerated(i, image)
            => /\ C20_Places(allChats', pending[i].msgId) # {}
               /\ \A p \in C20_Places(allChats', pending[i].msgId) :
                     /\ C21_Images(allChats', p)
                           = Append(C21_Images(allChats, p),
                                    [url |-> <<"data:image/jpeg;base64,", image>>,
                                     prompt |-> pending[i].prompt])
                     /\ pending[i].kind = "image" => Len(C21_Images(allChats', p)) = 1
                     /\ pending[i].kind = "regenerate" => Len(C21_Images(allChats', p)) >= 2
       /\ \A i \in DOMAIN pending, e \in ImageErrors :
            ImageFailed(i, e)
            => \A p \in C20_Places(allChats', pending[i].msgId) :
                  C21_Images(allChats', p) = C21_Images(allChats, p)]_vars

\* Generate and then Regenerate succeeded: two images, the later one last
C21_TwoImages ==
    \E p \in C19_AssistantPlaces(allChats) :
        /\ Len(C21_Images(allChats, p)) = 2
        /\ allChats[p[1]].messages[p[2]].imageGenData.status = "done"
        /\ pending = <<>>

\* a generation failed after one had succeeded, and the image is still there
C21_FailedKeepsImage ==
    \E p \in C19_AssistantPlaces(allChats) :
        /\ Len(C21_Images(allChats, p)) = 1
        /\ allChats[p[1]].messages[p[2]].imageGenData.status = "error"
        /\ allChats[p[1]].messages[p[2]].imageGenData.error = ImageFailedText

\* C22: regenerate is valid only from status done.  Called for a message
\* whose status is confirming_prompt, generating or error, it requests no
\* generation and leaves the message as it is.
C22_RegenerateOnlyFromDone ==
    [][\A i \in 1..(MaxMessages + 2) :
          (/\ handleImageAction(i, "regenerate")
           /\ \A p \in C20_Places(allChats, renderedMessages[i].id) :
                 /\ allChats[p[1]].messages[p[2]].imageGenData.present
                 /\ allChats[p[1]].messages[p[2]].imageGenData.status
                       \in {"confirming_prompt", "generating", "error"})
          => /\ calls'.provider = NoProviderCall
             /\ pending' = pending
             /\ allChats' = allChats]_vars

\* Regenerate was called for a message whose status is done
C22_RegeneratedFromDone ==
    /\ calls.provider.fn = "generateImage"
    /\ \E i \in DOMAIN pending :
          /\ pending[i].kind = "regenerate"
          /\ \E p \in C20_Places(allChats, pending[i].msgId) :
                /\ allChats[p[1]].messages[p[2]].imageGenData.status = "generating"
                /\ Len(C21_Images(allChats, p)) = 1

\* the places of the messages cancel has left: no imageGenData, and the
\* cancellation text
C23_Cancelled(chats) ==
    {p \in C19_AssistantPlaces(chats) :
        /\ ~chats[p[1]].messages[p[2]].imageGenData.present
        /\ chats[p[1]].messages[p[2]].text = <<"Image generation cancelled.">>}

\* the step of cancel alone: whatever the status, imageGenData is cleared and
\* the text is the cancellation text
C23_CancelClears ==
    [][\A i \in 1..(MaxMessages + 2) :
          (/\ handleImageAction(i, "cancel")
           /\ \A p \in C20_Places(allChats, renderedMessages[i].id) :
                 allChats[p[1]].messages[p[2]].imageGenData.present)
          => /\ C20_Places(allChats', renderedMessages[i].id) # {}
             /\ C20_Places(allChats', renderedMessages[i].id) \subseteq C23_Cancelled(allChats')
             /\ pending' = pending
             /\ calls'.provider = NoProviderCall]_vars

\* C23: cancel, from any status, clears the imageGenData of the message and
\* sets a cancellation text, and no later state of the message has
\* imageGenData again, also when a generation that was in flight at the
\* cancel succeeds or fails afterwards.
C23_CancelIsFinal ==
    /\ C23_CancelClears
    /\ [][\A p \in C23_Cancelled(allChats) :
            /\ p \in C19_AssistantPlaces(allChats')
            /\ ~allChats'[p[1]].messages[p[2]].imageGenData.present]_vars

\* a message was cancelled while the generation of its image was in flight
C23_CancelledWhileGenerating ==
    \E p \in C23_Cancelled(allChats), i \in DOMAIN pending :
        /\ pending[i].kind \in {"image", "regenerate"}
        /\ pending[i].msgId = allChats[p[1]].messages[p[2]].id

\* ------------------------------------------------------------------------
\* Edit and resubmit
\* ------------------------------------------------------------------------

\* where the message with the id is in a chat's messages now, 0 when it is
\* not there
C24_IndexOf(messages, id) ==
    IF \E m \in DOMAIN messages : messages[m].id = id
    THEN SetMin({m \in DOMAIN messages : messages[m].id = id})
    ELSE 0

\* the step of handleEditMessage: playback is cancelled, and the session is
\* left with the messages that were before the edited one, each as it is now
C24_Truncates ==
    [][\A i \in 1..(MaxMessages + 2), text \in EditedTexts :
          (/\ handleEditMessage(i, text)
           /\ resubmits' # resubmits)
          => LET id  == renderedMessages[i].id
                 c   == targetChatIndex(id)
                 now_at == C24_IndexOf(allChats[c].messages, id)
             IN  /\ synth'.state = "idle"
                 /\ now_at > 0
                       => allChats'[c].messages
                            = SubSeq(allChats[c].messages, 1, now_at - 1)
                 /\ resubmits'[Len(resubmits')].text = trim(text)]_vars

\* the step that resubmits: the session keeps its messages and gets a new
\* user message with the edited text (and the turn's own assistant message
\* after it)
C24_Resubmits ==
    [][EditResubmit
       => LET before == ChatMessages(allChats, r.activeChatId)
              after  == ChatMessages(allChats', r.activeChatId)
          IN  /\ Len(after) > Len(before)
              /\ SubSeq(after, 1, Len(before)) = before
              /\ after[Len(before) + 1].role = "user"
              /\ after[Len(before) + 1].text = Head(resubmits).text
              /\ Len(after) <= Len(before) + 2]_vars

\* C24: editing the user message at index i of its session and resubmitting
\* leaves the session with the messages that were before index i, each in its
\* latest state, followed by a new user message with the edited text; playback
\* is cancelled before the truncation and the resubmission.
C24_EditTruncatesAndResubmits ==
    /\ C24_Truncates
    /\ C24_Resubmits

\* the message 'email bob' was edited while its draft was awaited, and the
\* edit was resubmitted: the turn in flight has lost its user message, no
\* timer is left, and the session ends with a user message that holds the
\* edited text and with the placeholder of its turn
C24_Resubmitted ==
    /\ calls.input.called
    /\ calls.input.text \in EditedTexts
    /\ resubmits = <<>>
    /\ \E i \in DOMAIN pending :
          /\ pending[i].kind = "email"
          /\ \A m \in AllMessages(allChats) : m.id # pending[i].userId
    /\ \E c \in DOMAIN allChats :
          LET msgs == allChats[c].messages
          IN  /\ Len(msgs) >= 3
              /\ msgs[Len(msgs) - 1].role = "user"
              /\ msgs[Len(msgs) - 1].text \in EditedTexts
              /\ msgs[Len(msgs)].role = "assistant"
              /\ msgs[Len(msgs)].isStreaming

\* C25: edit-and-resubmit dispatches the turn with the attachments the
\* edited message was sent with: the files queued for the resubmission are
\* those the message names, and the timer passes them to handleUserInput.
C25_OriginalAttachments ==
    [][/\ \A i \in 1..(MaxMessages + 2), text \in EditedTexts :
            (/\ handleEditMessage(i, text)
             /\ resubmits' # resubmits)
            => fileInfosOf(resubmits'[Len(resubmits')].files)
                 = renderedMessages[i].fileInfos
       /\ EditResubmit
            => /\ calls'.input.called
               /\ calls'.input.files = Head(resubmits).files]_vars

\* the message was sent with a file, the same file was attached to the input
\* bar again, and the edit is queued with it
C25_QueuedWithStagedFile ==
    /\ resubmits # <<>>
    /\ resubmits[1].files = <<UploadedFile>>
    /\ uploadedFiles = <<UploadedFile>>

\* ------------------------------------------------------------------------
\* Recognizer: end and error
\* ------------------------------------------------------------------------

C27_ErrorSurfacedUnlessNoSpeech ==
    [][\A error \in RecognitionErrors :
          RecogError(error)
          => IF error = "no-speech"
             THEN /\ UNCHANGED <<speechVars, isIntended, restartTimers, appVars>>
                  /\ calls' = NoCalls
             ELSE /\ ~isListening'
                  /\ calls'.reported = "idle"
                  /\ calls'.error = error]_vars

\* a network error reached the running recognizer, which was listening
C27_NetworkErrorSurfaced ==
    /\ calls.error = "network"
    /\ calls.reported = "idle"
    /\ recog = "ending"
    /\ ~isListening
    /\ r.isListening

\* ------------------------------------------------------------------------
\* Synthesizer: one speaker, cancellation
\* ------------------------------------------------------------------------

\* C28: in every state in which no event of a removed utterance is still to
\* be delivered, an utterance is playing exactly when isSpeaking is true and
\* speakingMessageId is the id of that utterance.
C28_SpeakingExactlyWhenPlaying ==
    cancelled = 0
    => ((synth.state = "playing") <=> (isSpeaking /\ speakingMessageId = synth.id))

\* the acknowledgement of the wake phrase replaced the greeting, began, and
\* then the end event of the greeting was delivered
C28_EndOfRemovedClearsPlaying ==
    /\ synth.state = "playing"
    /\ synth.id = WakeAckId
    /\ cancelled = 0
    /\ ~isSpeaking
    /\ speakingMessageId = Null
    /\ calls.reported = "idle"

\* C29: stopSpeaking() called while an utterance plays surfaces no error,
\* neither at the call nor when the last event of the removed utterance is
\* delivered, and the speech state eventually returns to isSpeaking = false
\* and speakingMessageId = null.
C29_CancellationCleansUp ==
    /\ [][(handleSpeakerClick(1) /\ synth.state = "playing" /\ synth' = SynthIdle)
          => (currentError' = currentError /\ calls'.error = "none")]_vars
    /\ [][\A event \in {"error", "end"} :
             CancelledUtteranceEvent(event)
             => (currentError' = currentError /\ calls'.error = "none")]_vars
    /\ (synth.state = "idle" /\ isSpeaking)
          ~> (~isSpeaking /\ speakingMessageId = Null)

\* the greeting was stopped while it played and the last event of the
\* removed utterance has been delivered: nothing is queued or playing, and
\* the hook still says the greeting is speaking
C29_StoppedStillSpeaking ==
    /\ synth = SynthIdle
    /\ cancelled = 0
    /\ isSpeaking
    /\ speakingMessageId = InitId
    /\ r.isSpeaking
    /\ currentError = <<>>

\* ------------------------------------------------------------------------
\* Image mode at dispatch
\* ------------------------------------------------------------------------

\* C30: a turn handled in image mode leaves image mode off as soon as it is
\* dispatched, and a turn sent while a prompt enhancement is in flight is
\* not handled in image mode (it does not start the image workflow).
C30_ImageModeOffAtDispatch ==
    /\ [][\A text \in {TxtHi, TxtEmail} :
             (SendMessage(text) /\ r.isImageMode) => ~isImageMode']_vars
    /\ [][\A text \in {TxtHi, TxtEmail} :
             (SendMessage(text) /\ \E i \in DOMAIN pending : pending[i].kind = "enhance")
             => calls'.provider.fn # "generateDetailedImagePrompt"]_vars

\* image mode was selected once, and two turns were sent before the first
\* enhancement was answered: both started the image workflow
C30_TwoEnhancementsInFlight ==
    /\ Len(pending) = 2
    /\ pending[1].kind = "enhance"
    /\ pending[2].kind = "enhance"
    /\ isImageMode
    /\ calls.provider.fn = "generateDetailedImagePrompt"

\* ------------------------------------------------------------------------
\* Image workflow: the status of a message
\* ------------------------------------------------------------------------

\* the status of the image workflow of the message at a place
C31_Status(chats, p) ==
    chats[p[1]].messages[p[2]].imageGenData.status

C31_Statuses ==
    {"confirming_prompt", "generating", "done", "error"}

C31_Edges ==
    { <<"confirming_prompt", "generating">>, <<"confirming_prompt", "error">>,
      <<"generating", "done">>, <<"generating", "error">>, <<"done", "generating">> }

\* C31: every change of the status of an image-generation message from one
\* of confirming_prompt, generating, done, error to another of them follows
\* one of the edges confirming_prompt -> generating, confirming_prompt ->
\* error, generating -> done, generating -> error, done -> generating.
C31_StatusFollowsEdges ==
    [][\A p \in C19_AssistantPlaces(allChats) :
          (/\ p \in C19_AssistantPlaces(allChats')
           /\ C31_Status(allChats, p) \in C31_Statuses
           /\ C31_Status(allChats', p) \in C31_Statuses
           /\ C31_Status(allChats', p) # C31_Status(allChats, p))
          => <<C31_Status(allChats, p), C31_Status(allChats', p)>> \in C31_Edges]_vars

\* Generate was clicked before the enhancement was answered, the image was
\* generated, and then the enhancement failed: done became error
C31_DoneBecameError ==
    \E p \in C19_AssistantPlaces(allChats) :
        /\ C31_Status(allChats, p) = "error"
        /\ allChats[p[1]].messages[p[2]].imageGenData.error = EnhanceFailedText
        /\ Len(C21_Images(allChats, p)) = 1
        /\ allChats[p[1]].messages[p[2]].text = EnhanceFailedText

\* the imageGenData of the message at a place
C32_Data(chats, p) ==
    chats[p[1]].messages[p[2]].imageGenData

\* C32: once the status of a message has left confirming_prompt its prompt
\* does not change, the prompt a generation is requested with is the
\* enhanced prompt, and every image is recorded with the prompt the message
\* holds.
C32_PromptFixedAfterConfirming ==
    /\ [][\A p \in C19_AssistantPlaces(allChats) :
             (/\ p \in C19_AssistantPlaces(allChats')
              /\ C32_Data(allChats, p).status \in {"generating", "done", "error"}
              /\ C32_Data(allChats', p).present)
             => C32_Data(allChats', p).prompt = C32_Data(allChats, p).prompt]_vars
    /\ [][calls'.provider.fn = "generateImage"
             => calls'.provider.prompt \in DetailedPrompts]_vars
    /\ [](\A p \in C19_AssistantPlaces(allChats) :
             \A k \in DOMAIN C21_Images(allChats, p) :
                 C21_Images(allChats, p)[k].prompt = C32_Data(allChats, p).prompt)

\* Generate was clicked before the enhancement was answered: the image was
\* generated from the empty prompt and recorded with it, and the enhanced
\* prompt was stored afterwards
C32_ImageOfEmptyPrompt ==
    \E p \in C19_AssistantPlaces(allChats) :
        /\ C32_Data(allChats, p).status = "done"
        /\ C32_Data(allChats, p).prompt \in DetailedPrompts
        /\ Len(C21_Images(allChats, p)) = 1
        /\ C21_Images(allChats, p)[1].prompt = <<>>

\* the generation requests for a message id among the requests in flight
C33_Generations(tasks, id) ==
    {i \in DOMAIN tasks : tasks[i].kind \in {"image", "regenerate"} /\ tasks[i].msgId = id}

\* C33: for each message at most one image generation request is in flight;
\* no step starts a generation request for a message whose status is
\* generating; and no message has or shows the status done while a
\* generation request for it is in flight.
C33_OneGenerationPerMessage ==
    /\ [](\A m \in AllMessages(allChats) :
             Cardinality(C33_Generations(pending, m.id)) <= 1)
    /\ [](\A m \in AllMessages(allChats) \cup AllMessages(r.allChats) :
             (m.imageGenData.present /\ m.imageGenData.status = "done")
             => C33_Generations(pending, m.id) = {})
    /\ [][\A m \in AllMessages(allChats) :
             (m.imageGenData.present /\ m.imageGenData.status = "generating")
             => /\ Cardinality(C33_Generations(pending', m.id))
                      <= Cardinality(C33_Generations(pending, m.id))
                /\ (calls'.provider.fn = "generateImage" /\ calls' # calls)
                      => \E k \in DOMAIN pending' :
                            /\ k \notin DOMAIN pending
                            /\ pending'[k].msgId # m.id]_vars

\* two messages are generating at once, one after Generate and one after
\* Regenerate, each with its own request
C33_TwoMessagesGenerating ==
    /\ Len(pending) = 2
    /\ pending[1].kind = "regenerate"
    /\ pending[2].kind = "image"
    /\ pending[1].msgId # pending[2].msgId
    /\ \A i \in 1..2 : \E p \in C20_Places(allChats, pending[i].msgId) :
          C32_Data(allChats, p).status = "generating"

\* ------------------------------------------------------------------------
\* Recognizer: intent and microphone
\* ------------------------------------------------------------------------

\* C34: the recognizer is never started while the intent flag says not
\* listening; a restart timer that fires after the intent was set to false
\* leaves the recognizer stopped.
C34_NoStartWithoutIntent ==
    /\ [][(recog = "stopped" /\ recog' = "starting") => isIntended']_vars
    /\ [][(RestartTimer /\ ~isIntended) => recog' = recog]_vars

\* the restart timer fired after stopListening(): the recognizer runs and
\* reports listening although the intent says not listening
C34_RunningWithoutIntent ==
    /\ recog = "running"
    /\ ~isIntended
    /\ isListening
    /\ restartTimers = 0

\* ------------------------------------------------------------------------
\* One-shot modes and turns in flight
\* ------------------------------------------------------------------------

\* C35: the deep-research flag is cleared only by the turn that used it: the
\* completion or failure of a turn that was dispatched outside deep-research
\* mode leaves the flag as it is, so a mode selected while that turn was in
\* flight is still set afterwards.
C35_FlagClearedByItsTurn ==
    [][\A i \in DOMAIN pending :
          (/\ StreamDone(i) \/ \E e \in ThrownErrors : StreamFailed(i, e)
           /\ pending[i].mode # "deep_research_gen")
          => isDeepResearchMode' = isDeepResearchMode]_vars

\* deep-research mode was selected while a plain turn was in flight, and the
\* completion of that turn turned it off: no turn has used the mode, and
\* the view still shows it
C35_ModeLostToEarlierTurn ==
    /\ ~isDeepResearchMode
    /\ r.isDeepResearchMode
    /\ pending = <<>>
    /\ \A m \in AllMessages(allChats) : m.mode = "none"
    /\ \E m \in AllMessages(allChats) : m.role = "user"

\* ------------------------------------------------------------------------
\* Message ids
\* ------------------------------------------------------------------------

\* C36: no two messages of a session share an id, and the chunks of a
\* streamed answer are written to assistant messages only: no chunk changes
\* a user message.
C36_UniqueMessageIds ==
    /\ [](\A c \in DOMAIN allChats :
             \A i, j \in DOMAIN allChats[c].messages :
                 i # j => allChats[c].messages[i].id # allChats[c].messages[j].id)
    /\ [][\A i \in DOMAIN pending, chunk \in SplitChunks :
             StreamChunk(i, chunk)
             => \A c \in DOMAIN allChats :
                   \A k \in DOMAIN allChats[c].messages :
                       allChats[c].messages[k].role = "user"
                       => allChats'[c].messages[k] = allChats[c].messages[k]]_vars

\* the second 'Hi' was sent one millisecond after the first, so its user
\* message has the id of the first turn's placeholder: the chunks of the
\* first answer replaced the user's text
C36_ChunkInUserMessage ==
    \E c \in DOMAIN allChats :
        \E i, j \in DOMAIN allChats[c].messages :
            /\ i < j
            /\ allChats[c].messages[i].role = "assistant"
            /\ allChats[c].messages[j].role = "user"
            /\ allChats[c].messages[i].id = allChats[c].messages[j].id
            /\ allChats[c].messages[j].text = <<"o", "k">>
            /\ ~allChats[c].messages[j].isStreaming

\* ------------------------------------------------------------------------
\* aiState while a turn is in flight
\* ------------------------------------------------------------------------

\* C37: while the provider request of a turn is in flight, aiState is
\* thinking.
C37_ThinkingWhileInFlight ==
    (\E i \in DOMAIN pending : pending[i].kind \in {"chat", "email", "enhance"})
    => aiState = "thinking"

\* a spoken command is in flight and the recognizer, restarted by the timer
\* of its end event, reported listening: aiState is listening
C37_ListeningWhileInFlight ==
    /\ \E i \in DOMAIN pending : pending[i].kind = "chat"
    /\ aiState = "listening"
    /\ r.aiState = "thinking"
    /\ calls.reported = "listening"

\* C38: once the microphone is disabled, the intent flag becomes not
\* listening and the recognizer stops, unless the microphone is enabled
\* again first; and while the microphone stays disabled a stopped recognizer
\* is not started.
C38_MicOffStopsRecognizer ==
    /\ (~isMicEnabled) ~> (isMicEnabled \/ (~isIntended /\ recog = "stopped"))
    /\ [][(~isMicEnabled /\ ~isMicEnabled' /\ recog = "stopped") => recog' = "stopped"]_vars

\* access to the microphone was denied: the microphone is disabled, nothing
\* is left to render, and the intent flag still says listening
C38_DeniedStillIntended ==
    /\ ~isMicEnabled
    /\ currentError = MicDeniedText
    /\ isIntended
    /\ ~isListening
    /\ r = Rendered

\* ------------------------------------------------------------------------
\* Sessions
\* ------------------------------------------------------------------------

\* an assistant message with the id is streaming in some session
C39_Streaming(id) ==
    \E m \in AllMessages(allChats) : m.id = id /\ m.role = "assistant" /\ m.isStreaming

\* the sessions with the id, as a collection of their own
C39_SessionsWith(chats, chatId) ==
    SelectSeq(chats, LAMBDA chat : chat.id = chatId)

\* the sessions other than the one with the id are left as they are
C39_OthersUnchanged(chatId) ==
    \A c \in DOMAIN allChats :
        allChats[c].id # chatId => allChats'[c] = allChats[c]

\* C39: a turn is bound to the session that was active when it was
\* dispatched.  The placeholder is appended to that session; every chunk and
\* the completion are written to its message there and change no message of
\* another session, whichever session is active by then; and every message
\* that is streaming eventually has isStreaming = false.
C39_TurnBoundToSession ==
    /\ [][SendMessage(TxtHi)
          => /\ C39_OthersUnchanged(r.activeChatId)
             /\ pending' # pending => pending'[Len(pending')].chatId = r.activeChatId]_vars
    /\ [][\A i \in DOMAIN pending, chunk \in StreamChunks :
             StreamChunk(i, chunk)
             => /\ C39_OthersUnchanged(pending[i].chatId)
                /\ \E m \in AllMessages(C39_SessionsWith(allChats', pending[i].chatId)) :
                      /\ m.id = pending[i].msgId
                      /\ m.role = "assistant"
                      /\ m.text = pending'[i].fullText]_vars
    /\ [][\A i \in DOMAIN pending :
             StreamDone(i)
             => /\ C39_OthersUnchanged(pending[i].chatId)
                /\ \E m \in AllMessages(C39_SessionsWith(allChats', pending[i].chatId)) :
                      /\ m.id = pending[i].msgId
                      /\ m.role = "assistant"
                      /\ ~m.isStreaming]_vars
    /\ \A k \in 0..(MaxClock + 1) :
          C39_Streaming(ToString(k)) ~> ~C39_Streaming(ToString(k))

\* a turn was sent in one session and, one millisecond later, a turn in
\* another: the chunk of the first answer is in the first session's
\* placeholder and in the user message of the other session
C39_ChunkInOtherSession ==
    \E c1, c2 \in DOMAIN allChats :
        /\ c1 # c2
        /\ allChats[c2].id = activeChatId
        /\ \E i \in DOMAIN allChats[c1].messages, j \in DOMAIN allChats[c2].messages :
              /\ allChats[c1].messages[i].role = "assistant"
              /\ allChats[c2].messages[j].role = "user"
              /\ allChats[c1].messages[i].id = allChats[c2].messages[j].id
              /\ allChats[c1].messages[i].text = <<"o", "k">>
              /\ allChats[c2].messages[j].text = <<"o", "k">>

\* ------------------------------------------------------------------------
\* C40: the active session exists
\* ------------------------------------------------------------------------

\* C40: in every reachable state the session collection is non-empty and
\* the active-session pointer refers to a session of the collection, for
\* every sequence of new-chat, switch-chat and delete-chat operations;
\* deleting the active session while others remain selects the first
\* remaining one, and deleting the last session leaves exactly one fresh
\* session, which is the active one
C40_ActiveSessionExists ==
    /\ [](allChats # <<>> /\ HasChat(allChats, activeChatId))
    /\ [][\A c \in 1..MaxChats, eager \in BOOLEAN :
            (/\ handleDeleteChat(c, eager)
             /\ r.allChats[c].id = activeChatId)
            => IF \E k \in DOMAIN allChats : allChats[k].id # activeChatId
               THEN /\ allChats' = SelectSeq(allChats,
                                     LAMBDA chat : chat.id # activeChatId)
                    /\ activeChatId' = allChats'[1].id
               ELSE /\ Len(allChats') = 1
                    /\ allChats'[1].id = activeChatId'
                    /\ allChats'[1].id # activeChatId
                    /\ allChats'[1].messages = <<InitMessage>>]_vars

\* the only session was deleted: the collection is empty, as the view has
\* rendered it, and the active-session pointer names a session that is
\* not in it
C40_NoSessionLeft ==
    /\ allChats = <<>>
    /\ r.allChats = <<>>
    /\ activeChatId # Null
    /\ r.activeChatId = activeChatId
    /\ ~HasChat(allChats, activeChatId)

====
